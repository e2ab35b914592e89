----------------------- MODULE ChatAvatarService_proofs -----------------------
(***************************************************************************)
(* What a gateway believes of its avatars, for any number of avatars and   *)
(* names, whatever is loaded on the way and whichever statements fail.     *)
(***************************************************************************)
EXTENDS ChatAvatarService, SequenceTheorems, FiniteSetTheorems, WellFoundedInduction, TLAPS

-----------------------------------------------------------------------------
(***************************************************************************)
(* Caches.                                                                 *)
(***************************************************************************)
\* The contacts of object o are objects of cache c.
Refers(c, o) == \A x \in Ref : o.friends[x] > 0 => x[2] \in DOMAIN c[x[1]]

\* A cache of avatars that have rows in st, in which no contact dangles.
Sane(c, st) ==
    /\ c \in [Avatar -> Seq(Object)]
    /\ \A b \in Avatar : Len(c[b]) <= MaxObjects
    /\ \A b \in Avatar : c[b] # <<>> => st[b] # NoName
    /\ \A b \in Avatar : \A k \in DOMAIN c[b] : Refers(c, c[b][k])

\* Cache d holds the objects of c, and new ones, offline and ignoring nobody.
Grows(c, d) ==
    \A b \in Avatar :
        /\ DOMAIN c[b] \subseteq DOMAIN d[b]
        /\ \A k \in DOMAIN c[b] : d[b][k] = c[b][k]
        /\ \A k \in DOMAIN d[b] \ DOMAIN c[b] : ~d[b][k].online /\ d[b][k].ignored = {}

\* Every friend in the table has a row.
RowsStocked == \A row \in friendTable : stored[row[2]] # NoName

Tables ==
    /\ stored \in [Avatar -> Name \cup {NoName}] /\ friendTable \subseteq Avatar \X Avatar
    /\ RowsStocked

\* The least element of a set of naturals.
LEMMA SmallestIn ==
    ASSUME NEW T \in SUBSET Nat, T # {}
    PROVE  Min(T) \in T
<1> DEFINE R == {p \in Nat \X Nat : p[1] < p[2]}
<1>1. OpToRel(<, Nat) = R
  BY DEF OpToRel
<1>2. IsWellFoundedOn(R, Nat)
  BY <1>1, NatLessThanWellFounded
<1>3. \A x, y \in Nat : y < x => <<y, x>> \in R
  OBVIOUS
<1> HIDE DEF R
<1>4. PICK x \in T : \A y \in T : ~(<<y, x>> \in R)
  BY <1>2, WFMin
<1>5. \A y \in T : ~(y < x)
  BY <1>3, <1>4
<1>6. \A y \in T : x <= y
  BY <1>5
<1> QED  BY <1>6 DEF Min

\* A null contact is no reference.
LEMMA NullIsNoRef == Null \notin Ref /\ \A b \in Avatar : <<b, 1>> \in Ref
BY ChatAvatarServiceAssumption DEF Null, Ref

\* What is loaded is an object.
LEMMA LoadedObject ==
    ASSUME Tables, NEW b \in Avatar, NEW T \in SUBSET Avatar, b \in T,
           NEW yield \in [Rows(T) -> {"once", "twice", "null", "unread"}]
    PROVE  /\ LoadStoredAvatar(b, yield) \in Object
           /\ ~LoadStoredAvatar(b, yield).online /\ LoadStoredAvatar(b, yield).ignored = {}
           /\ \A x \in Ref : LoadStoredAvatar(b, yield).friends[x] > 0 =>
                 x[2] = 1 /\ <<b, x[1]>> \in Rows(T)
                 /\ yield[<<b, x[1]>>] \in {"once", "twice"}
<1> DEFINE f == LoadFriendList(b, yield)
           D == {d \in Avatar : <<b, d>> \in DOMAIN yield /\ yield[<<b, d>>] = "null"}
<1>1. Cardinality(D) \in Nat
  BY ChatAvatarServiceAssumption, FS_Subset, FS_CardinalityType
<1>2. f \in [Contact -> Nat]
  BY <1>1 DEF LoadFriendList
<1>3. \A x \in Ref : f[x] > 0 =>
          x[2] = 1 /\ <<b, x[1]>> \in Rows(T) /\ yield[<<b, x[1]>>] \in {"once", "twice"}
  BY NullIsNoRef DEF LoadFriendList, Contact
<1> HIDE DEF f
<1>4. LoadStoredAvatar(b, yield) =
          [name |-> IF stored[b] \in RoundTrips THEN stored[b] ELSE Mangled,
           online |-> FALSE, friends |-> f, ignored |-> {}]
  BY DEF LoadStoredAvatar, NewObject, f
<1>5. (IF stored[b] \in RoundTrips THEN stored[b] ELSE Mangled) \in Name \cup {Mangled}
  BY ChatAvatarServiceAssumption
<1> QED  BY <1>2, <1>3, <1>4, <1>5 DEF Object

\* A load adds objects of avatars that have rows, the one asked for among them,
\* and leaves no contact dangling.
LEMMA LoadSane ==
    ASSUME Tables, NEW c, Sane(c, stored), NEW a \in Avatar, stored[a] # NoName,
           Len(c[a]) # MaxObjects, NEW d \in Loads(c, a)
    PROVE  Sane(d, stored) /\ Grows(c, d) /\ Len(d[a]) \in DOMAIN d[a]
           /\ (c[a] = <<>> => Len(d[a]) = 1)
<1> DEFINE uncached == {b \in Avatar : c[b] = <<>>}
<1>1. PICK S \in SUBSET (uncached \cup {a}) :
         /\ a \in S
         /\ \A T \in SUBSET S :
               a \in T /\ (\A row \in Rows(T) : row[2] \in S => row[2] \in T) => T = S
         /\ \E yield \in [Rows(S) -> {"once", "twice", "null", "unread"}] :
               /\ \A row \in Rows(S) : yield[row] \in {"once", "twice"} => row[2] \notin uncached \ S
               /\ d = [b \in Avatar |->
                         IF b \in S THEN Append(c[b], LoadStoredAvatar(b, yield)) ELSE c[b]]
  BY DEF Loads
<1>2. PICK yield \in [Rows(S) -> {"once", "twice", "null", "unread"}] :
         /\ \A row \in Rows(S) : yield[row] \in {"once", "twice"} => row[2] \notin uncached \ S
         /\ d = [b \in Avatar |->
                   IF b \in S THEN Append(c[b], LoadStoredAvatar(b, yield)) ELSE c[b]]
  BY <1>1
<1>3. S \in SUBSET Avatar
  OBVIOUS
<1>4. \A b \in S : stored[b] # NoName
  <2> DEFINE T == {b \in S : stored[b] # NoName}
  <2>1. \A row \in Rows(T) : row[2] \in S => row[2] \in T
    BY DEF Rows, Tables, RowsStocked
  <2>2. a \in T /\ T \in SUBSET S
    BY <1>1
  <2> HIDE DEF T
  <2>3. T = S
    BY <1>1, <2>1, <2>2
  <2> QED  BY <2>3 DEF T
<1> DEFINE new(b) == LoadStoredAvatar(b, yield)
<1>5. \A b \in S : /\ new(b) \in Object /\ ~new(b).online /\ new(b).ignored = {}
                   /\ \A x \in Ref : new(b).friends[x] > 0 =>
                         x[2] = 1 /\ <<b, x[1]>> \in Rows(S)
                         /\ yield[<<b, x[1]>>] \in {"once", "twice"}
  BY <1>3, LoadedObject
<1> HIDE DEF new
<1>6. \A b \in Avatar : c[b] \in Seq(Object) /\ Len(c[b]) \in Nat /\ DOMAIN c[b] = 1..Len(c[b])
  BY LenProperties DEF Sane
<1>7. ASSUME NEW b \in Avatar
      PROVE  /\ d[b] \in Seq(Object) /\ DOMAIN d[b] = 1..Len(d[b])
             /\ Len(d[b]) = IF b \in S THEN Len(c[b]) + 1 ELSE Len(c[b])
             /\ \A k \in DOMAIN c[b] : d[b][k] = c[b][k]
             /\ b \in S => d[b][Len(c[b]) + 1] = new(b)
  <2>1. CASE b \in S
    <3>1. d[b] = Append(c[b], new(b)) /\ new(b) \in Object
      BY <1>2, <1>5, <2>1 DEF new
    <3>2. d[b] \in Seq(Object) /\ Len(d[b]) = Len(c[b]) + 1
          /\ (\A k \in 1..Len(c[b]) : d[b][k] = c[b][k]) /\ d[b][Len(c[b]) + 1] = new(b)
      BY <1>6, <3>1, AppendProperties
    <3> QED  BY <1>6, <2>1, <3>2, LenProperties
  <2>2. CASE b \notin S
    BY <1>2, <1>6, <2>2
  <2> QED  BY <2>1, <2>2
<1>8. \A b \in Avatar : b \in S /\ b # a => Len(c[b]) = 0
  BY EmptySeq
<1>9. Grows(c, d)
  <2>1. ASSUME NEW b \in Avatar, NEW k \in DOMAIN d[b] \ DOMAIN c[b]
        PROVE  b \in S /\ d[b][k] = new(b)
    BY <1>6, <1>7, <2>1
  <2>2. \A b \in Avatar : DOMAIN c[b] \subseteq DOMAIN d[b]
    BY <1>6, <1>7
  <2> QED  BY <1>5, <1>7, <2>1, <2>2 DEF Grows
<1>10. Sane(d, stored)
  <2>1. d \in [Avatar -> Seq(Object)]
    <3>1. d = [b \in Avatar |-> d[b]]
      BY <1>2
    <3> QED  BY <1>7, <3>1
  <2>2. ASSUME NEW b \in Avatar PROVE Len(d[b]) <= MaxObjects
    <3>1. MaxObjects \in Nat \ {0} /\ Len(c[b]) <= MaxObjects
      BY ChatAvatarServiceAssumption DEF Sane
    <3> QED  BY <1>6, <1>7, <1>8, <3>1
  <2>3. ASSUME NEW b \in Avatar, d[b] # <<>> PROVE stored[b] # NoName
    <3>1. CASE b \in S
      BY <1>4, <3>1
    <3>2. CASE b \notin S
      BY <1>2, <2>3, <3>2 DEF Sane
    <3> QED  BY <3>1, <3>2
  <2>4. ASSUME NEW b \in Avatar, NEW k \in DOMAIN d[b], NEW x \in Ref, d[b][k].friends[x] > 0
        PROVE  x[2] \in DOMAIN d[x[1]]
    <3>1. x[1] \in Avatar
      BY DEF Ref
    <3>2. CASE k \in DOMAIN c[b]
      <4>1. x[2] \in DOMAIN c[x[1]]
        BY <1>7, <2>4, <3>2 DEF Sane, Refers
      <4> QED  BY <1>9, <3>1, <4>1 DEF Grows
    <3>3. CASE k \notin DOMAIN c[b]
      <4>1. b \in S /\ d[b][k] = new(b)
        BY <1>6, <1>7, <3>3
      <4>2. x[2] = 1 /\ <<b, x[1]>> \in Rows(S) /\ yield[<<b, x[1]>>] \in {"once", "twice"}
        BY <1>5, <2>4, <4>1
      <4>3. x[1] \notin uncached \ S
        BY <1>2, <4>2
      <4>4. Len(d[x[1]]) >= 1
        <5>1. CASE x[1] \in S
          BY <1>6, <1>7, <3>1, <5>1
        <5>2. CASE x[1] \notin S
          <6>1. c[x[1]] # <<>>
            BY <3>1, <4>3, <5>2
          <6> QED  BY <1>6, <1>7, <3>1, <5>2, <6>1, EmptySeq
        <5> QED  BY <5>1, <5>2
      <4> QED  BY <1>6, <1>7, <3>1, <4>2, <4>4
    <3> QED  BY <3>2, <3>3
  <2> QED  BY <2>1, <2>2, <2>3, <2>4 DEF Sane, Refers
<1>11. Len(d[a]) \in DOMAIN d[a] /\ (c[a] = <<>> => Len(d[a]) = 1)
  BY <1>1, <1>6, <1>7, EmptySeq
<1> QED  BY <1>9, <1>10, <1>11

\* A cache grows into itself, and by stages.
LEMMA GrowsOn ==
    /\ \A c : Grows(c, c)
    /\ \A c, d, e : Grows(c, d) /\ Grows(d, e) => Grows(c, e)
<1>1. \A c : Grows(c, c)
  BY DEF Grows
<1>2. ASSUME NEW c, NEW d, NEW e, Grows(c, d), Grows(d, e) PROVE Grows(c, e)
  <2>1. \A b \in Avatar : DOMAIN c[b] \subseteq DOMAIN d[b] /\ DOMAIN d[b] \subseteq DOMAIN e[b]
    BY <1>2 DEF Grows
  <2>2. \A b \in Avatar : \A k \in DOMAIN c[b] : e[b][k] = c[b][k]
    BY <1>2, <2>1 DEF Grows
  <2>3. ASSUME NEW b \in Avatar, NEW k \in DOMAIN e[b] \ DOMAIN c[b]
        PROVE  ~e[b][k].online /\ e[b][k].ignored = {}
    BY <1>2, <2>1 DEF Grows
  <2> QED  BY <2>1, <2>2, <2>3 DEF Grows
<1> QED  BY <1>1, <1>2

\* GetAvatar(id) finds the first object of the avatar, loading it if need be.
LEMMA GetByIdSane ==
    ASSUME Tables, NEW c, Sane(c, stored), NEW a \in Avatar, NEW got \in GetAvatarById(c, a)
    PROVE  /\ got.at = <<a, 1>> /\ 1 \in DOMAIN got.cache[a]
           /\ Sane(got.cache, stored) /\ Grows(c, got.cache)
<1>0. c[a] \in Seq(Object) /\ Len(c[a]) \in Nat /\ DOMAIN c[a] = 1..Len(c[a])
  BY LenProperties DEF Sane
<1>1. CASE c[a] # <<>>
  <2>1. got.at = <<a, 1>> /\ got.cache = c
    BY <1>1 DEF GetAvatarById
  <2>2. Len(c[a]) # 0
    BY <1>0, <1>1, EmptySeq
  <2> QED  BY <1>0, <2>1, <2>2, GrowsOn
<1>2. CASE c[a] = <<>>
  <2>1. stored[a] # NoName /\ \E d \in Loads(c, a) : got = [cache |-> d, at |-> <<a, 1>>]
    BY <1>2 DEF GetAvatarById
  <2>2. PICK d \in Loads(c, a) : got = [cache |-> d, at |-> <<a, 1>>]
    BY <2>1
  <2>3. Len(c[a]) # MaxObjects
    <3>1. Len(c[a]) = 0
      BY <1>2, EmptySeq
    <3> QED  BY <3>1, ChatAvatarServiceAssumption
  <2>4. Sane(d, stored) /\ Grows(c, d) /\ Len(d[a]) \in DOMAIN d[a] /\ Len(d[a]) = 1
    BY <1>2, <2>1, <2>3, LoadSane
  <2> QED  BY <2>2, <2>4
<1> QED  BY <1>1, <1>2

\* GetAvatar(name) finds an object of the avatar the name selects.
LEMMA GetSane ==
    ASSUME Tables, NEW c, Sane(c, stored), NEW name \in Name, NEW got \in GetAvatar(c, name)
    PROVE  \E k : /\ got.at = <<OwnerOf[name], k>> /\ k \in DOMAIN got.cache[OwnerOf[name]]
                  /\ Sane(got.cache, stored) /\ Grows(c, got.cache)
<1> DEFINE a == OwnerOf[name]
           hits == {k \in DOMAIN c[a] : c[a][k].name = name}
<1>0. a \in Avatar /\ c[a] \in Seq(Object) /\ DOMAIN c[a] = 1..Len(c[a]) /\ Len(c[a]) \in Nat
  BY LenProperties, ChatAvatarServiceAssumption DEF Sane
<1>1. CASE hits # {}
  <2>1. got.at = <<a, Min(hits)>> /\ got.cache = c
    BY <1>1 DEF GetAvatar
  <2>2. hits \in SUBSET Nat
    BY <1>0
  <2>3. Min(hits) \in hits
    BY <1>1, <2>2, SmallestIn
  <2> QED  BY <2>1, <2>3, GrowsOn
<1>2. CASE hits = {}
  <2>1. /\ stored[a] # NoName /\ Len(c[a]) # MaxObjects
        /\ \E d \in Loads(c, a) : got = [cache |-> d, at |-> <<a, Len(d[a])>>]
    BY <1>2 DEF GetAvatar
  <2>2. PICK d \in Loads(c, a) : got = [cache |-> d, at |-> <<a, Len(d[a])>>]
    BY <2>1
  <2>3. Sane(d, stored) /\ Grows(c, d) /\ Len(d[a]) \in DOMAIN d[a]
    BY <1>0, <2>1, LoadSane
  <2> QED  BY <2>2, <2>3
<1> QED  BY <1>1, <1>2

\* The two parties of a request are found in one cache.
LEMMA PartiesSane ==
    ASSUME Tables, Sane(cache, stored), NEW a \in Avatar, NEW name \in Name,
           NEW got \in Parties(a, name)
    PROVE  /\ OwnerOf[name] # a /\ OwnerOf[name] \in Avatar /\ 1 \in DOMAIN got.cache[a]
           /\ \E k : got.at = <<OwnerOf[name], k>> /\ k \in DOMAIN got.cache[OwnerOf[name]]
           /\ Sane(got.cache, stored) /\ Grows(cache, got.cache)
<1>1. OwnerOf[name] # a /\ OwnerOf[name] \in Avatar
  BY ChatAvatarServiceAssumption DEF Parties
<1>2. PICK first \in GetAvatarById(cache, a) : got \in GetAvatar(first.cache, name)
  BY <1>1 DEF Parties
<1> DEFINE c == first.cache
<1>3. 1 \in DOMAIN c[a] /\ Sane(c, stored) /\ Grows(cache, c)
  BY <1>2, GetByIdSane
<1> HIDE DEF c
<1>4. got \in GetAvatar(c, name)
  BY <1>2 DEF c
<1>5. \E k : /\ got.at = <<OwnerOf[name], k>> /\ k \in DOMAIN got.cache[OwnerOf[name]]
             /\ Sane(got.cache, stored) /\ Grows(c, got.cache)
  BY <1>3, <1>4, GetSane
<1>6. Grows(cache, got.cache)
  BY <1>3, <1>5, GrowsOn
<1>7. 1 \in DOMAIN got.cache[a]
  BY <1>3, <1>5 DEF Grows
<1> QED  BY <1>1, <1>5, <1>6, <1>7

-----------------------------------------------------------------------------
(***************************************************************************)
(* A handler, whatever it loads, changes one object at most.               *)
(***************************************************************************)
\* Cache c with o for the object at <<a, k>>.
With(c, a, k, o) == [c EXCEPT ![a] = [c[a] EXCEPT ![k] = o]]

\* Everything else stays.
LEMMA WithSane ==
    ASSUME NEW st, NEW c, Sane(c, st), NEW a \in Avatar, NEW k \in DOMAIN c[a], NEW o \in Object,
           Refers(c, o)
    PROVE  LET d == With(c, a, k, o)
           IN  /\ Sane(d, st)
               /\ \A b \in Avatar : DOMAIN d[b] = DOMAIN c[b] /\ Len(d[b]) = Len(c[b])
               /\ \A b \in Avatar : \A j \in DOMAIN c[b] :
                     d[b][j] = IF b = a /\ j = k THEN o ELSE c[b][j]
<1> DEFINE d == With(c, a, k, o)
<1>1. \A b \in Avatar : c[b] \in Seq(Object) /\ DOMAIN c[b] = 1..Len(c[b]) /\ Len(c[b]) \in Nat
  BY LenProperties DEF Sane
<1>2. /\ [c[a] EXCEPT ![k] = o] \in Seq(Object)
      /\ Len([c[a] EXCEPT ![k] = o]) = Len(c[a])
      /\ \A j \in 1..Len(c[a]) : [c[a] EXCEPT ![k] = o][j] = IF j = k THEN o ELSE c[a][j]
  BY <1>1, ExceptSeq
<1>3. \A b \in Avatar : d[b] = IF b = a THEN [c[a] EXCEPT ![k] = o] ELSE c[b]
  BY DEF With, Sane
<1>4. d \in [Avatar -> Seq(Object)]
  BY <1>2 DEF With, Sane
<1> HIDE DEF d
<1>5. \A b \in Avatar : Len(d[b]) = Len(c[b]) /\ DOMAIN d[b] = DOMAIN c[b]
  BY <1>1, <1>2, <1>3, <1>4, LenProperties
<1>6. \A b \in Avatar : \A j \in DOMAIN c[b] : d[b][j] = IF b = a /\ j = k THEN o ELSE c[b][j]
  BY <1>1, <1>2, <1>3
<1>7. \A b \in Avatar : d[b] # <<>> => c[b] # <<>>
  BY <1>1, <1>4, <1>5, EmptySeq
<1>8. ASSUME NEW b \in Avatar, NEW j \in DOMAIN d[b] PROVE Refers(d, d[b][j])
  <2>1. Refers(c, d[b][j])
    BY <1>5, <1>6 DEF Sane
  <2>2. \A x \in Ref : x[1] \in Avatar
    BY DEF Ref
  <2> QED  BY <1>5, <2>1, <2>2 DEF Refers
<1>9. Sane(d, st)
  BY <1>4, <1>5, <1>7, <1>8 DEF Sane
<1> QED  BY <1>5, <1>6, <1>9 DEF d

\* A cache that one step leads to by loading.
Loaded(c) == Sane(c, stored') /\ Grows(cache, c)

\* What erasing a friend makes of an object.
LEMMA Erased ==
    ASSUME NEW c, NEW o \in Object, Refers(c, o), NEW b \in Avatar, IsFriend(o, b),
           NEW p \in WithoutFriend(o, b)
    PROVE  /\ p \in Object /\ p.online = o.online /\ p.ignored = o.ignored /\ Refers(c, p)
           /\ \A x \in Contact : p.friends[x] > 0 => o.friends[x] > 0
           /\ \E x \in FriendRefs(o, b) :
                 \/ o.friends[x] = 1 /\ p.friends = [o.friends EXCEPT ![x] = 0]
                 \/ /\ o.friends[x] > 1
                    /\ \A y \in Contact : \/ y = x
                                          \/ p.friends[y] = o.friends[y]
                                          \/ p.friends[y] = o.friends[y] + 1
<1> DEFINE x == CHOOSE ref \in FriendRefs(o, b) : TRUE
           f == o.friends
<1>1. x \in FriendRefs(o, b)
  BY DEF IsFriend
<1> HIDE DEF x
<1>2. f \in [Contact -> Nat] /\ x \in Contact /\ x \in Ref /\ f[x] \in Nat /\ f[x] > 0
  BY <1>1 DEF Object, FriendRefs, Contact
<1>3. CASE f[x] = 1
  <2>1. p = [o EXCEPT !.friends = [f EXCEPT ![x] = 0]]
    BY <1>3 DEF WithoutFriend, x
  <2> DEFINE g == [f EXCEPT ![x] = 0]
  <2>2. g \in [Contact -> Nat] /\ \A y \in Contact : g[y] > 0 => f[y] > 0
    BY <1>2
  <2> HIDE DEF g
  <2>3. p = [o EXCEPT !.friends = g]
    BY <2>1 DEF g
  <2>4. p \in Object /\ p.online = o.online /\ p.ignored = o.ignored /\ p.friends = g
    BY <2>2, <2>3 DEF Object
  <2>5. Refers(c, p)
    BY <2>2, <2>4 DEF Refers, Contact
  <2> QED  BY <1>1, <1>3, <2>2, <2>4, <2>5 DEF g
<1>4. CASE f[x] # 1
  <2> DEFINE G(y) == [f EXCEPT ![x] = 0, ![y] = IF y = x THEN 1 ELSE @ + 1]
  <2>0. p \in {[o EXCEPT !.friends = G(y)] : y \in {z \in Contact : f[z] > 0}}
    BY <1>4 DEF WithoutFriend, x
  <2> HIDE DEF G
  <2>1. PICK y \in Contact : f[y] > 0 /\ p = [o EXCEPT !.friends = G(y)]
    BY <2>0
  <2> USE DEF G
  <2> DEFINE g == [f EXCEPT ![x] = 0, ![y] = IF y = x THEN 1 ELSE @ + 1]
  <2>2. g \in [Contact -> Nat] /\ \A z \in Contact : g[z] > 0 => f[z] > 0
    BY <1>2, <2>1
  <2>3. \A z \in Contact : z = x \/ g[z] = f[z] \/ g[z] = f[z] + 1
    BY <1>2
  <2> HIDE DEF g
  <2>4. p = [o EXCEPT !.friends = g]
    BY <2>1 DEF g
  <2>5. p \in Object /\ p.online = o.online /\ p.ignored = o.ignored /\ p.friends = g
    BY <2>2, <2>4 DEF Object
  <2>6. Refers(c, p)
    BY <2>2, <2>5 DEF Refers, Contact
  <2>7. f[x] > 1
    BY <1>2, <1>4
  <2> QED  BY <1>1, <2>2, <2>3, <2>5, <2>6, <2>7
<1> QED  BY <1>3, <1>4

\* The handlers on friends and ignores change the first object of avatar a to o,
\* after loads that left c, for one of three reasons.
Kept(c, a, o) ==
    /\ cache' = With(c, a, 1, o) /\ o \in Object /\ Refers(c, o)
    /\ o.online = c[a][1].online
    /\ UNCHANGED <<onlineAvatars, stored, web, unsettled>>

FriendsStay(c, a, b, at, o) ==
    /\ o.friends = c[a][1].friends
    /\ \/ o.ignored \subseteq c[a][1].ignored
       \/ o.ignored = c[a][1].ignored \cup {b} /\ ~IsFriend(c[a][1], b)
    /\ torn' = torn \cup Misread(c) /\ UNCHANGED friendTable
    /\ UNCHANGED told \/ (IsFriend(c[a][1], b) /\ TellIfOnline(c, a, at))

FriendAdded(c, a, b, at, o) ==
    /\ ~IsFriend(c[a][1], b) /\ ~IsIgnored(c[a][1], b)
    /\ o.friends = [c[a][1].friends EXCEPT ![at] = c[a][1].friends[at] + 1]
    /\ o.ignored = c[a][1].ignored
    /\ PersistFriend(c, a, at)

FriendDropped(c, a, b, o) ==
    /\ IsFriend(c[a][1], b)
    /\ told' = [told EXCEPT ![a] = told[a] \ {b}]
    /\ \E p \in WithoutFriend(c[a][1], b) :
          /\ o.friends = p.friends
          /\ \/ /\ o.ignored \in {c[a][1].ignored, c[a][1].ignored \cup {b}}
                /\ friendTable' = friendTable \ {<<a, b>>}
                /\ torn' = torn \cup Misread(c) \cup Doubled(a, c[a][1], p)
             \/ /\ o.ignored = c[a][1].ignored
                /\ friendTable' \in {friendTable, friendTable \ {<<a, b>>}}
                /\ torn' = torn \cup Misread(c) \cup ({<<a, b>>} \cup Doubled(a, c[a][1], p))

ListsStep(c, a, b, at, o) ==
    /\ Loaded(c) /\ a # b /\ 1 \in DOMAIN c[a]
    /\ \E k \in DOMAIN c[b] : at = <<b, k>> /\ at \in Ref
    /\ Kept(c, a, o)
    /\ FriendsStay(c, a, b, at, o) \/ FriendAdded(c, a, b, at, o) \/ FriendDropped(c, a, b, o)

\* What the parties of a request are to the lemmas below.
LEMMA PartiesFacts ==
    ASSUME Tables, Sane(cache, stored), NEW a \in Avatar, NEW name \in Name,
           NEW got \in Parties(a, name), UNCHANGED stored
    PROVE  LET b == OwnerOf[name]
               c == got.cache
           IN  /\ b # a /\ b \in Avatar /\ 1 \in DOMAIN c[a] /\ Loaded(c)
               /\ c[a] \in Seq(Object) /\ c[a][1] \in Object /\ Refers(c, c[a][1])
               /\ \E k \in DOMAIN c[b] : got.at = <<b, k>> /\ got.at \in Ref
<1> DEFINE b == OwnerOf[name]
           c == got.cache
<1>1. /\ b # a /\ b \in Avatar /\ 1 \in DOMAIN c[a]
      /\ Sane(c, stored) /\ Grows(cache, c)
  BY PartiesSane
<1>2. PICK k \in DOMAIN c[b] : got.at = <<b, k>>
  BY PartiesSane
<1> HIDE DEF b, c
<1>3. \A d \in Avatar : c[d] \in Seq(Object) /\ DOMAIN c[d] = 1..Len(c[d]) /\ Len(c[d]) \in Nat
  BY <1>1, LenProperties DEF Sane
<1>4. k \in 1..MaxObjects
  BY <1>1, <1>2, <1>3, ChatAvatarServiceAssumption DEF Sane
<1>5. c[a][1] \in Object
  BY <1>1, <1>3, ElementOfSeq
<1> QED  BY <1>1, <1>2, <1>3, <1>4, <1>5 DEF Sane, Ref, Loaded, b, c

\* The handlers on friends and ignores are such steps.
LEMMA DropShape ==
    ASSUME NEW c, NEW a \in Avatar, NEW b \in Avatar, c[a][1] \in Object, Refers(c, c[a][1]),
           IsFriend(c[a][1], b), NEW p \in WithoutFriend(c[a][1], b), NEW q \in Object,
           q.friends = p.friends, q.online = p.online,
           q.ignored \in {c[a][1].ignored, c[a][1].ignored \cup {b}},
           DropFriend(c, a, b, p, q)
    PROVE  \E o : Kept(c, a, o) /\ FriendDropped(c, a, b, o)
<1>1. /\ p \in Object /\ p.online = c[a][1].online /\ p.ignored = c[a][1].ignored
      /\ Refers(c, p)
  BY Erased
<1>2. Refers(c, q)
  BY <1>1 DEF Refers
<1>3. told' = [told EXCEPT ![a] = told[a] \ {b}]
  BY DEF DropFriend
<1>4. CASE friendTable' = friendTable \ {<<a, b>>} /\ Became(c, a, q, Doubled(a, c[a][1], p))
  <2>1. Kept(c, a, q)
    BY <1>1, <1>2, <1>4 DEF Kept, Became, With
  <2>2. torn' = torn \cup Misread(c) \cup Doubled(a, c[a][1], p)
    BY <1>4 DEF Became
  <2>3. FriendDropped(c, a, b, q)
    BY <1>3, <1>4, <2>2 DEF FriendDropped
  <2> QED  BY <2>1, <2>3
<1>5. CASE /\ friendTable' \in {friendTable, friendTable \ {<<a, b>>}}
           /\ Became(c, a, p, {<<a, b>>} \cup Doubled(a, c[a][1], p))
  <2>1. Kept(c, a, p)
    BY <1>1, <1>5 DEF Kept, Became, With
  <2>2. torn' = torn \cup Misread(c) \cup ({<<a, b>>} \cup Doubled(a, c[a][1], p))
    BY <1>5 DEF Became
  <2>3. FriendDropped(c, a, b, p)
    BY <1>1, <1>3, <1>5, <2>2 DEF FriendDropped
  <2> QED  BY <2>1, <2>3
<1> QED  BY <1>4, <1>5 DEF DropFriend

\* Where only whom an object ignores changes, its friends stay.
LEMMA StayShape ==
    ASSUME NEW c, NEW a \in Avatar, NEW b \in Avatar, NEW at, NEW q \in Object,
           c[a][1] \in Object, Refers(c, c[a][1]),
           q.friends = c[a][1].friends, q.online = c[a][1].online,
           \/ q.ignored \subseteq c[a][1].ignored
           \/ q.ignored = c[a][1].ignored \cup {b} /\ ~IsFriend(c[a][1], b),
           Became(c, a, q, {}), UNCHANGED friendTable,
           UNCHANGED told \/ (IsFriend(c[a][1], b) /\ TellIfOnline(c, a, at))
    PROVE  Kept(c, a, q) /\ FriendsStay(c, a, b, at, q)
<1>1. Refers(c, q)
  BY DEF Refers
<1>2. Kept(c, a, q)
  BY <1>1 DEF Kept, Became, With
<1>3. torn' = torn \cup Misread(c)
  BY DEF Became
<1> QED  BY <1>2, <1>3 DEF FriendsStay

\* What the four requests about friends and ignored have in common.
LEMMA ListsShape ==
    ASSUME Tables, Sane(cache, stored), NEW a \in Avatar, NEW name \in Name,
           AddFriend(a, name) \/ RemoveFriend(a, name)
              \/ AddIgnore(a, name) \/ RemoveIgnore(a, name)
    PROVE  \E c, b, at, o : b \in Avatar /\ ListsStep(c, a, b, at, o)
<1> DEFINE b == OwnerOf[name]
<1>1. PICK got \in Parties(a, name) :
         LET c == got.cache
             old == c[a][1]
             Ignoring(o) == [o EXCEPT !.ignored = old.ignored \cup {b}]
         IN  /\ UNCHANGED stored
             /\ \/ /\ IsFriend(old, b)
                   /\ Became(c, a, old, {}) /\ TellIfOnline(c, a, got.at) /\ UNCHANGED friendTable
                \/ /\ ~IsFriend(old, b) /\ IsIgnored(old, b)
                   /\ Became(c, a, [old EXCEPT !.ignored = old.ignored \ {b}], {})
                   /\ UNCHANGED <<friendTable, told>>
                \/ /\ ~IsFriend(old, b) /\ ~IsIgnored(old, b)
                   /\ cache' = [c EXCEPT ![a][1].friends[got.at] = @ + 1]
                   /\ PersistFriend(c, a, got.at)
                   /\ UNCHANGED <<onlineAvatars, stored, web, unsettled>>
                \/ /\ IsFriend(old, b)
                   /\ \E o \in WithoutFriend(old, b) : DropFriend(c, a, b, o, o)
                \/ Became(c, a, old, {}) /\ UNCHANGED <<friendTable, told>>
                \/ /\ IsFriend(old, b)
                   /\ \E o \in WithoutFriend(old, b) :
                         DropFriend(c, a, b, o, [o EXCEPT !.ignored = o.ignored \cup {b}])
                \/ /\ ~IsFriend(old, b)
                   /\ Became(c, a, [old EXCEPT !.ignored = old.ignored \cup {b}], {})
                   /\ UNCHANGED <<friendTable, told>>
                \/ /\ Became(c, a, [old EXCEPT !.ignored = old.ignored \ {b}], {})
                   /\ UNCHANGED <<friendTable, told>>
  <2>1. CASE AddFriend(a, name)
    BY <2>1 DEF AddFriend, Became
  <2>2. CASE RemoveFriend(a, name)
    BY <2>2 DEF RemoveFriend, Became, DropFriend
  <2>3. CASE AddIgnore(a, name)
    BY <2>3 DEF AddIgnore, Became, DropFriend
  <2>4. CASE RemoveIgnore(a, name)
    BY <2>4 DEF RemoveIgnore, Became
  <2> QED  BY <2>1, <2>2, <2>3, <2>4
<1> DEFINE c == got.cache
           old == c[a][1]
<1>2. /\ b # a /\ b \in Avatar /\ 1 \in DOMAIN c[a] /\ Loaded(c)
      /\ c[a] \in Seq(Object) /\ old \in Object /\ Refers(c, old)
      /\ \E k \in DOMAIN c[b] : got.at = <<b, k>> /\ got.at \in Ref
  BY <1>1, PartiesFacts
<1> SUFFICES \E o : /\ Kept(c, a, o)
                    /\ \/ FriendsStay(c, a, b, got.at, o)
                       \/ FriendAdded(c, a, b, got.at, o)
                       \/ FriendDropped(c, a, b, o)
  BY <1>2 DEF ListsStep
<1> DEFINE at == got.at
<1> HIDE DEF b, c, at
<1>3. \A I \in SUBSET Avatar : LET q == [old EXCEPT !.ignored = I]
                               IN  /\ q \in Object /\ q.ignored = I
                                   /\ q.friends = old.friends /\ q.online = old.online
  BY <1>2 DEF Object
<1>4. old.ignored \in SUBSET Avatar
  BY <1>2 DEF Object
<1>5. CASE IsFriend(old, b) /\ Became(c, a, old, {}) /\ TellIfOnline(c, a, at)
           /\ UNCHANGED friendTable
  BY <1>2, <1>5, StayShape DEF at
<1>6. CASE Became(c, a, [old EXCEPT !.ignored = old.ignored \ {b}], {})
           /\ UNCHANGED <<friendTable, told>>
  <2> DEFINE q == [old EXCEPT !.ignored = old.ignored \ {b}]
  <2>1. /\ q \in Object /\ q.ignored \subseteq old.ignored
        /\ q.friends = old.friends /\ q.online = old.online
    BY <1>3, <1>4
  <2> HIDE DEF q
  <2>2. Became(c, a, q, {}) /\ UNCHANGED <<friendTable, told>>
    BY <1>6 DEF q
  <2>3. c[a][1] = old /\ b \in Avatar /\ UNCHANGED friendTable /\ UNCHANGED told
    BY <1>2, <1>6
  <2> HIDE DEF old
  <2>4. Kept(c, a, q) /\ FriendsStay(c, a, b, at, q)
    BY <1>2, <2>1, <2>2, <2>3, StayShape
  <2> QED  BY <2>4 DEF at
<1>7. CASE /\ ~IsFriend(old, b) /\ ~IsIgnored(old, b)
           /\ cache' = [c EXCEPT ![a][1].friends[at] = @ + 1]
           /\ PersistFriend(c, a, at)
           /\ UNCHANGED <<onlineAvatars, stored, web, unsettled>>
  <2> DEFINE f == [old.friends EXCEPT ![at] = old.friends[at] + 1]
             o == [old EXCEPT !.friends = f]
  <2>1. old.friends \in [Contact -> Nat] /\ at \in Contact
    BY <1>2 DEF Object, Contact, at
  <2>2. f \in [Contact -> Nat]
    BY <2>1
  <2>3. cache' = With(c, a, 1, o)
    BY <1>7 DEF With
  <2>4. \A x \in Ref : f[x] > 0 => x[2] \in DOMAIN c[x[1]]
    <3>1. \A x \in Ref : f[x] = IF x = at THEN old.friends[x] + 1 ELSE old.friends[x]
      BY <2>1 DEF Contact
    <3> QED  BY <1>2, <3>1 DEF Refers, at
  <2> HIDE DEF f
  <2>5. o \in Object /\ o.friends = f /\ o.online = old.online /\ o.ignored = old.ignored
    BY <1>2, <2>2 DEF Object
  <2>6. Refers(c, o)
    BY <2>4, <2>5 DEF Refers
  <2>7. Kept(c, a, o)
    <3> HIDE DEF o
    <3> QED  BY <1>7, <2>3, <2>5, <2>6 DEF Kept
  <2>8. FriendAdded(c, a, b, at, o)
    <3> HIDE DEF o
    <3> QED  BY <1>7, <2>5 DEF FriendAdded, f
  <2> QED  BY <2>7, <2>8 DEF at
<1>8. ASSUME IsFriend(old, b), NEW p \in WithoutFriend(old, b), NEW q,
             q = p \/ q = [p EXCEPT !.ignored = p.ignored \cup {b}],
             DropFriend(c, a, b, p, q)
      PROVE  \E o : Kept(c, a, o) /\ FriendDropped(c, a, b, o)
  <2>1. p \in Object /\ p.online = old.online /\ p.ignored = old.ignored
    BY <1>2, <1>8, Erased
  <2>2. /\ q \in Object /\ q.friends = p.friends /\ q.online = p.online
        /\ q.ignored \in {old.ignored, old.ignored \cup {b}}
    <3>1. CASE q = p
      BY <2>1, <3>1
    <3>2. CASE q = [p EXCEPT !.ignored = p.ignored \cup {b}]
      <4>1. p.ignored \cup {b} \in SUBSET Avatar
        BY <1>2, <1>4, <2>1
      <4>2. \A I \in SUBSET Avatar : LET r == [p EXCEPT !.ignored = I]
                                     IN  /\ r \in Object /\ r.ignored = I
                                         /\ r.friends = p.friends /\ r.online = p.online
        BY <2>1 DEF Object
      <4> QED  BY <2>1, <3>2, <4>1, <4>2
    <3> QED  BY <1>8, <3>1, <3>2
  <2> QED  BY <1>2, <1>8, <2>2, DropShape
<1>9. CASE Became(c, a, old, {}) /\ UNCHANGED <<friendTable, told>>
  <2>1. c[a][1] = old /\ b \in Avatar /\ UNCHANGED friendTable /\ UNCHANGED told
    BY <1>2, <1>9
  <2> HIDE DEF old
  <2>2. Kept(c, a, old) /\ FriendsStay(c, a, b, at, old)
    BY <1>2, <1>9, <2>1, StayShape
  <2> QED  BY <2>2 DEF at
<1>10. CASE ~IsFriend(old, b) /\ Became(c, a, [old EXCEPT !.ignored = old.ignored \cup {b}], {})
            /\ UNCHANGED <<friendTable, told>>
  <2> DEFINE q == [old EXCEPT !.ignored = old.ignored \cup {b}]
  <2>1. /\ q \in Object /\ q.ignored = old.ignored \cup {b}
        /\ q.friends = old.friends /\ q.online = old.online
    BY <1>2, <1>3, <1>4
  <2> HIDE DEF q
  <2>2. Became(c, a, q, {}) /\ UNCHANGED <<friendTable, told>>
    BY <1>10 DEF q
  <2>3. c[a][1] = old /\ b \in Avatar /\ UNCHANGED friendTable /\ UNCHANGED told
    BY <1>2, <1>10
  <2> HIDE DEF old
  <2>4. Kept(c, a, q) /\ FriendsStay(c, a, b, at, q)
    BY <1>2, <1>10, <2>1, <2>2, <2>3, StayShape
  <2> QED  BY <2>4 DEF at
<1> QED  BY <1>1, <1>5, <1>6, <1>7, <1>8, <1>9, <1>10 DEF b, c, at

-----------------------------------------------------------------------------
(***************************************************************************)
(* The online list.                                                        *)
(***************************************************************************)
Entries(list) == {list[i] : i \in DOMAIN list}

\* No avatar is named twice.
Distinct(list) == \A i, j \in DOMAIN list : list[i][1] = list[j][1] => i = j

\* Searching the list is searching its entries.
LEMMA EntriesTold ==
    /\ \A list, a : Listed(list, a) <=> \E x \in Entries(list) : x[1] = a
    /\ \A c, list, a : Watchers(c, list, a) =
          {x[1] : x \in {y \in Entries(list) : IsFriend(At(c, y), a)}}
    /\ \A list : Distinct(list) =>
          \A x, y \in Entries(list) : x[1] = y[1] => x = y
BY DEF Listed, Entries, Watchers, Distinct

\* Login enters an avatar that is not in the list.
LEMMA Enlisted ==
    ASSUME NEW list \in Seq(Ref), NEW ref \in Ref, Distinct(list)
    PROVE  LET new == Enlist(list, ref)
           IN  /\ new \in Seq(Ref) /\ Distinct(new)
               /\ Entries(new) = IF Listed(list, ref[1]) THEN Entries(list)
                                 ELSE Entries(list) \cup {ref}
<1> DEFINE n == Len(list)
           new == Append(list, ref)
<1>1. CASE Listed(list, ref[1])
  BY <1>1 DEF Enlist
<1>2. CASE ~Listed(list, ref[1])
  <2>1. n \in Nat /\ DOMAIN list = 1..n
    BY LenProperties
  <2>2. /\ new \in Seq(Ref) /\ Len(new) = n + 1 /\ new[n + 1] = ref
        /\ \A i \in 1..n : new[i] = list[i]
    BY AppendProperties
  <2>3. DOMAIN new = 1..(n + 1)
    BY <2>2, LenProperties
  <2> HIDE DEF n, new
  <2>4. 1..(n + 1) = 1..n \cup {n + 1} /\ n + 1 \notin 1..n
    BY <2>1
  <2>5. \A i \in 1..n : list[i][1] # ref[1]
    BY <1>2, <2>1 DEF Listed
  <2>6. Distinct(new)
    BY <2>1, <2>2, <2>3, <2>4, <2>5 DEF Distinct
  <2>7. Entries(new) = Entries(list) \cup {ref}
    BY <2>1, <2>2, <2>3, <2>4 DEF Entries
  <2> QED  BY <1>2, <2>2, <2>6, <2>7 DEF Enlist, new
<1> QED  BY <1>1, <1>2

\* Logout takes an avatar out that is in the list.
LEMMA Delisted ==
    ASSUME NEW list \in Seq(Ref), NEW a, Distinct(list), Listed(list, a)
    PROVE  LET new == Delist(list, a)
           IN  /\ new \in Seq(Ref) /\ Distinct(new)
               /\ Entries(new) = {x \in Entries(list) : x[1] # a}
<1> DEFINE n == Len(list)
           T == {j \in DOMAIN list : list[j][1] = a}
           i == Min(T)
           p == SubSeq(list, 1, i - 1)
           q == SubSeq(list, i + 1, n)
           new == p \o q
<1>1. n \in Nat /\ DOMAIN list = 1..n
  BY LenProperties
<1>2. i \in T
  <2>1. T \in SUBSET Nat /\ T # {}
    BY <1>1 DEF Listed
  <2> QED  BY <2>1, SmallestIn
<1> HIDE DEF i
<1>3. i \in 1..n /\ list[i][1] = a /\ \A j \in 1..n : list[j][1] = a => j = i
  BY <1>1, <1>2 DEF Distinct
<1> HIDE DEF T
<1>4. p \in Seq(Ref) /\ Len(p) = i - 1 /\ \A j \in 1..(i - 1) : p[j] = list[j]
  <2>1. 1 \in Int /\ i - 1 \in Int /\ \A j \in 1..(i - 1) : list[j] \in Ref
    BY <1>1, <1>3, ElementOfSeq
  <2> QED  BY <1>1, <1>3, <2>1, SubSeqProperties
<1>5. q \in Seq(Ref) /\ Len(q) = n - i /\ \A j \in 1..(n - i) : q[j] = list[i + j]
  <2>1. i + 1 \in Int /\ n \in Int /\ \A j \in (i + 1)..n : list[j] \in Ref
    BY <1>1, <1>3, ElementOfSeq
  <2>2. /\ q \in Seq(Ref) /\ Len(q) = IF i + 1 <= n THEN n - (i + 1) + 1 ELSE 0
        /\ \A j \in 1..(n - (i + 1) + 1) : q[j] = list[(i + 1) + j - 1]
    BY <2>1, SubSeqProperties
  <2>3. n - (i + 1) + 1 = n - i /\ \A j \in 1..(n - i) : (i + 1) + j - 1 = i + j
    BY <1>1, <1>3
  <2> HIDE DEF q
  <2>4. Len(q) = n - i
    <3>1. Len(q) = IF i + 1 <= n THEN n - (i + 1) + 1 ELSE 0
      BY <2>2
    <3>2. n \in Nat /\ i \in 1..n
      BY <1>1, <1>3
    <3> HIDE DEF n
    <3> QED  BY <3>1, <3>2
  <2> QED  BY <2>2, <2>3, <2>4
<1> HIDE DEF p, q, n
<1>6. /\ new \in Seq(Ref) /\ Len(new) = n - 1
      /\ \A j \in 1..(n - 1) : new[j] = IF j <= i - 1 THEN p[j] ELSE q[j - (i - 1)]
  <2>1. (i - 1) + (n - i) = n - 1
    BY <1>1, <1>3
  <2>2. /\ new \in Seq(Ref) /\ Len(new) = Len(p) + Len(q)
        /\ \A j \in 1..(Len(p) + Len(q)) : new[j] = IF j <= Len(p) THEN p[j] ELSE q[j - Len(p)]
    BY <1>4, <1>5, ConcatProperties
  <2> HIDE DEF new
  <2>3. Len(p) + Len(q) = n - 1 /\ Len(p) = i - 1
    BY <1>4, <1>5, <2>1
  <2> QED  BY <2>2, <2>3
<1>7. DOMAIN new = 1..(n - 1)
  BY <1>6, LenProperties
<1> HIDE DEF new
<1>8. \A j \in 1..(n - 1) : new[j] = IF j < i THEN list[j] ELSE list[j + 1]
  <2> SUFFICES ASSUME NEW j \in 1..(n - 1) PROVE new[j] = IF j < i THEN list[j] ELSE list[j + 1]
    OBVIOUS
  <2>1. CASE j < i
    BY <1>1, <1>3, <1>4, <1>6, <2>1
  <2>2. CASE ~(j < i)
    <3>1. j - (i - 1) \in 1..(n - i) /\ i + (j - (i - 1)) = j + 1 /\ ~(j <= i - 1)
      BY <1>1, <1>3, <2>2
    <3> QED  BY <1>5, <1>6, <2>2, <3>1
  <2> QED  BY <2>1, <2>2
<1>9. Distinct(new)
  <2> SUFFICES ASSUME NEW j \in 1..(n - 1), NEW k \in 1..(n - 1), new[j][1] = new[k][1]
               PROVE  j = k
    BY <1>7 DEF Distinct
  <2>1. \A x, y \in 1..n : list[x][1] = list[y][1] => x = y
    BY <1>1 DEF Distinct
  <2> DEFINE m(x) == IF x < i THEN x ELSE x + 1
  <2>2. m(j) \in 1..n /\ m(k) \in 1..n /\ new[j] = list[m(j)] /\ new[k] = list[m(k)]
    BY <1>1, <1>3, <1>8
  <2>3. m(j) = m(k)
    BY <2>1, <2>2
  <2> QED  BY <1>1, <1>3, <2>3
<1>10. Entries(new) = {x \in Entries(list) : x[1] # a}
  <2>1. ASSUME NEW j \in 1..(n - 1) PROVE new[j] \in Entries(list) /\ new[j][1] # a
    <3>1. CASE j < i
      <4>1. j \in 1..n /\ j # i /\ new[j] = list[j]
        BY <1>1, <1>3, <1>8, <3>1
      <4> QED  BY <1>1, <1>3, <4>1 DEF Entries
    <3>2. CASE ~(j < i)
      <4>1. j + 1 \in 1..n /\ j + 1 # i /\ new[j] = list[j + 1]
        BY <1>1, <1>3, <1>8, <3>2
      <4> QED  BY <1>1, <1>3, <4>1 DEF Entries
    <3> QED  BY <3>1, <3>2
  <2>2. ASSUME NEW j \in 1..n, list[j][1] # a PROVE list[j] \in Entries(new)
    <3>1. CASE j < i
      <4>1. j \in 1..(n - 1) /\ new[j] = list[j]
        BY <1>1, <1>3, <1>8, <3>1
      <4> QED  BY <1>7, <4>1 DEF Entries
    <3>2. CASE j > i
      <4>1. j - 1 \in 1..(n - 1) /\ ~(j - 1 < i) /\ (j - 1) + 1 = j
        BY <1>1, <1>3, <3>2
      <4>2. new[j - 1] = list[j]
        BY <1>8, <4>1
      <4> QED  BY <1>7, <4>1, <4>2 DEF Entries
    <3>3. j # i
      BY <1>3, <2>2
    <3> QED  BY <1>1, <1>3, <3>1, <3>2, <3>3
  <2>3. \A x \in Entries(new) : x \in Entries(list) /\ x[1] # a
    BY <1>7, <2>1 DEF Entries
  <2>4. \A x \in Entries(list) : x[1] # a => x \in Entries(new)
    BY <1>1, <2>2 DEF Entries
  <2> QED  BY <2>3, <2>4
<1>11. Delist(list, a) = new
  BY DEF Delist, new, p, q, i, T, n
<1> QED  BY <1>6, <1>9, <1>10, <1>11

-----------------------------------------------------------------------------
(***************************************************************************)
(* The other handlers.                                                     *)
(***************************************************************************)
StoredGrows ==
    /\ stored' \in [Avatar -> Name \cup {NoName}]
    /\ \A b \in Avatar : stored[b] # NoName => stored'[b] # NoName

\* The object at <<a, k>> is online, and the website is told, or it may not be.
LoginStep(c, a, k) ==
    LET ref == <<a, k>>
    IN  /\ Loaded(c) /\ k \in DOMAIN c[a] /\ ref \in Ref
        /\ cache' = With(c, a, k, [c[a][k] EXCEPT !.online = TRUE])
        /\ onlineAvatars' = Enlist(onlineAvatars, ref)
        /\ torn' = torn \cup Misread(c) /\ UNCHANGED friendTable
        /\ \/ /\ web' = web \cup {a} /\ unsettled' = unsettled \ {a}
              /\ SendFriendLoginUpdates(cache', onlineAvatars', ref)
           \/ /\ web' \in {web, web \cup {a}} /\ unsettled' = unsettled \cup {a}
              /\ UNCHANGED told

\* The object found first is offline, and those who watch are told.
LogoutStep(c, a) ==
    LET was == c[a][1].online
    IN  /\ Loaded(c) /\ 1 \in DOMAIN c[a]
        /\ cache' = With(c, a, 1, [c[a][1] EXCEPT !.online = FALSE])
        /\ onlineAvatars' = IF was THEN Delist(onlineAvatars, a) ELSE onlineAvatars
        /\ told' = [b \in Avatar |->
                      IF b = a /\ was THEN {}
                      ELSE IF b \in Watchers(c, onlineAvatars, a) THEN told[b] \ {a}
                      ELSE told[b]]
        /\ torn' = torn \cup Misread(c) /\ UNCHANGED friendTable
        /\ \/ web' = web \ {a} /\ unsettled' = unsettled \ {a}
           \/ web' \in {web, web \ {a}} /\ unsettled' = unsettled \cup {a}

LookupStep(c) ==
    /\ Loaded(c) /\ cache' = c /\ torn' = torn \cup Misread(c)
    /\ UNCHANGED <<onlineAvatars, friendTable, web, told, unsettled>>

\* A login is such a step; a row is made if there is none, and that may be all.
LEMMA LoginShape ==
    ASSUME Tables, Sane(cache, stored), NEW name \in Name, LoginAvatar(name)
    PROVE  /\ StoredGrows
           /\ \/ \E c, a, k : a \in Avatar /\ LoginStep(c, a, k)
              \/ UNCHANGED <<cache, onlineAvatars, friendTable, web, told, torn, unsettled>>
<1> DEFINE a == OwnerOf[name]
           ref(k) == <<a, k>>
<1>0. a \in Avatar /\ MaxObjects \in Nat \ {0}
  BY ChatAvatarServiceAssumption
<1>1. ASSUME NEW c, NEW k, Sane(c, stored'), Grows(cache, c), k \in DOMAIN c[a],
             LogIn(c, ref(k))
      PROVE  LoginStep(c, a, k)
  <2>1. c \in [Avatar -> Seq(Object)] /\ c[a] \in Seq(Object)
    BY <1>0, <1>1 DEF Sane
  <2>2. k \in 1..MaxObjects
    <3>1. DOMAIN c[a] = 1..Len(c[a]) /\ Len(c[a]) \in Nat
      BY <2>1, LenProperties
    <3> QED  BY <1>0, <1>1, <3>1 DEF Sane
  <2>3. ref(k) \in Ref /\ ref(k)[1] = a /\ ref(k)[2] = k
    BY <1>0, <2>2 DEF Ref
  <2> DEFINE d == [c EXCEPT ![a][k].online = TRUE]
  <2>4. d = With(c, a, k, [c[a][k] EXCEPT !.online = TRUE])
    BY <1>0, <1>1, <2>1 DEF With
  <2> HIDE DEF d, a, ref
  <2>5. /\ cache' = d /\ onlineAvatars' = Enlist(onlineAvatars, ref(k))
        /\ torn' = torn \cup Misread(c) /\ UNCHANGED friendTable
        /\ \/ /\ web' = web \cup {a} /\ unsettled' = unsettled \ {a}
              /\ SendFriendLoginUpdates(d, Enlist(onlineAvatars, ref(k)), ref(k))
           \/ /\ web' \in {web, web \cup {a}} /\ unsettled' = unsettled \cup {a}
              /\ UNCHANGED told
    BY <1>1, <2>3 DEF LogIn, d
  <2>6. ref(k) = <<a, k>>
    BY DEF ref
  <2> QED  BY <1>1, <2>3, <2>4, <2>5, <2>6 DEF LoginStep, Loaded
<1>2. CASE UNCHANGED stored /\ \E got \in GetAvatar(cache, name) : LogIn(got.cache, got.at)
  <2>1. PICK got \in GetAvatar(cache, name) : LogIn(got.cache, got.at)
    BY <1>2
  <2>2. PICK k : /\ got.at = <<a, k>> /\ k \in DOMAIN got.cache[a]
                 /\ Sane(got.cache, stored) /\ Grows(cache, got.cache)
    BY GetSane
  <2>3. LoginStep(got.cache, a, k)
    BY <1>1, <1>2, <2>1, <2>2
  <2>4. StoredGrows
    BY <1>2 DEF StoredGrows, Tables
  <2> QED  BY <1>0, <2>3, <2>4
<1>3. CASE /\ stored[a] = NoName /\ stored' = [stored EXCEPT ![a] = name]
           /\ LogIn([cache EXCEPT ![a] = Append(cache[a], NewObject(name, NoFriends))], <<a, 1>>)
  <2> DEFINE o == NewObject(name, NoFriends)
             c == [cache EXCEPT ![a] = Append(cache[a], o)]
  <2>1. o \in Object /\ ~o.online /\ o.ignored = {} /\ \A x \in Ref : o.friends[x] = 0
    BY DEF NewObject, NoFriends, Object, Contact
  <2> HIDE DEF o
  <2>2. cache[a] = <<>> /\ cache \in [Avatar -> Seq(Object)]
    BY <1>0, <1>3 DEF Sane
  <2>3. Append(cache[a], o) = <<o>>
    BY <2>2
  <2>4. /\ c \in [Avatar -> Seq(Object)] /\ c[a] = <<o>>
        /\ \A b \in Avatar : b # a => c[b] = cache[b]
    BY <1>0, <2>1, <2>2, <2>3
  <2>5. Len(c[a]) = 1 /\ DOMAIN c[a] = {1} /\ c[a][1] = o /\ DOMAIN cache[a] = {}
    BY <2>2, <2>4
  <2> HIDE DEF c
  <2>6. StoredGrows
    BY <1>0, <1>3 DEF StoredGrows, Tables
  <2>7. stored'[a] # NoName
    BY <1>0, <1>3, ChatAvatarServiceAssumption DEF Tables
  <2>8. Grows(cache, c)
    BY <2>1, <2>4, <2>5 DEF Grows
  <2>9. ASSUME NEW b \in Avatar, NEW k \in DOMAIN c[b] PROVE Refers(c, c[b][k])
    <3>1. CASE b = a
      BY <2>1, <2>5, <2>9, <3>1 DEF Refers
    <3>2. CASE b # a
      <4>1. Refers(cache, c[b][k])
        BY <2>4, <3>2 DEF Sane
      <4>2. \A x \in Ref : x[1] \in Avatar
        BY DEF Ref
      <4> QED  BY <2>8, <4>1, <4>2 DEF Refers, Grows
    <3> QED  BY <3>1, <3>2
  <2>10. Sane(c, stored')
    <3>1. \A b \in Avatar : Len(c[b]) <= MaxObjects
      <4>1. \A b \in Avatar : b # a => Len(c[b]) <= MaxObjects
        BY <2>4 DEF Sane
      <4>2. 1 <= MaxObjects
        BY <1>0
      <4> QED  BY <2>5, <4>1, <4>2
    <3>2. \A b \in Avatar : c[b] # <<>> => stored'[b] # NoName
      BY <2>4, <2>6, <2>7 DEF Sane, StoredGrows
    <3> QED  BY <2>4, <2>9, <3>1, <3>2 DEF Sane
  <2>11. LoginStep(c, a, 1)
    BY <1>1, <1>3, <2>5, <2>8, <2>10 DEF c, o
  <2> QED  BY <1>0, <2>6, <2>11
<1>4. CASE /\ stored[a] = NoName /\ stored' = [stored EXCEPT ![a] = name]
           /\ UNCHANGED <<cache, onlineAvatars, friendTable, web, told, torn, unsettled>>
  BY <1>0, <1>4, ChatAvatarServiceAssumption DEF StoredGrows, Tables
<1> QED  BY <1>2, <1>3, <1>4 DEF LoginAvatar

\* A logout is such a step.
LEMMA LogoutShape ==
    ASSUME Tables, Sane(cache, stored), NEW a \in Avatar, LogoutAvatar(a)
    PROVE  UNCHANGED stored /\ \E c : LogoutStep(c, a)
<1>1. PICK got \in GetAvatarById(cache, a) :
         LET c == got.cache
             was == At(c, got.at).online
         IN  /\ cache' = [c EXCEPT ![a][1].online = FALSE]
             /\ onlineAvatars' = IF was THEN Delist(onlineAvatars, a) ELSE onlineAvatars
             /\ told' = [b \in Avatar |->
                           IF b = a /\ was THEN {}
                           ELSE IF b \in Watchers(c, onlineAvatars, a) THEN told[b] \ {a}
                           ELSE told[b]]
             /\ torn' = torn \cup Misread(c)
             /\ UNCHANGED <<stored, friendTable>>
             /\ RecordAvatarLogout(a)
  BY DEF LogoutAvatar
<1> DEFINE c == got.cache
<1>2. got.at = <<a, 1>> /\ 1 \in DOMAIN c[a] /\ Sane(c, stored) /\ Grows(cache, c)
  BY GetByIdSane
<1>3. At(c, got.at).online = c[a][1].online
  BY <1>2 DEF At
<1> HIDE DEF c
<1>4. [c EXCEPT ![a][1].online = FALSE] = With(c, a, 1, [c[a][1] EXCEPT !.online = FALSE])
  BY <1>2 DEF Sane, With
<1>5. LogoutStep(c, a)
  BY <1>1, <1>2, <1>3, <1>4 DEF LogoutStep, Loaded, RecordAvatarLogout, c
<1> QED  BY <1>1, <1>5

\* A lookup is such a step.
LEMMA LookupShape ==
    ASSUME Tables, Sane(cache, stored), NEW name \in Name, GetAnyAvatar(name)
    PROVE  UNCHANGED stored /\ \E c : LookupStep(c)
<1>1. PICK got \in GetAvatar(cache, name) :
        /\ cache' = got.cache
        /\ torn' = torn \cup Misread(got.cache)
        /\ UNCHANGED <<onlineAvatars, stored, friendTable, web, told, unsettled>>
  BY DEF GetAnyAvatar
<1>2. Sane(got.cache, stored) /\ Grows(cache, got.cache)
  BY GetSane
<1> QED  BY <1>1, <1>2 DEF LookupStep, Loaded

\* What a step of the process may be, while it lives.
LEMMA StepShape ==
    ASSUME Tables, Sane(cache, stored), Next, ~Crash
    PROVE  /\ StoredGrows
           /\ \/ \E c, a, k : a \in Avatar /\ LoginStep(c, a, k)
              \/ \E c, a : a \in Avatar /\ LogoutStep(c, a)
              \/ \E c : LookupStep(c)
              \/ \E c, a, b, at, o : a \in Avatar /\ b \in Avatar /\ ListsStep(c, a, b, at, o)
              \/ UNCHANGED <<cache, onlineAvatars, friendTable, web, told, torn, unsettled>>
<1>1. UNCHANGED stored => StoredGrows
  BY DEF StoredGrows, Tables
<1>2. ASSUME NEW name \in Name, LoginAvatar(name) \/ FailoverReLoginAvatar(name)
      PROVE  /\ StoredGrows
             /\ \/ \E c, a, k : a \in Avatar /\ LoginStep(c, a, k)
                \/ UNCHANGED <<cache, onlineAvatars, friendTable, web, told, torn, unsettled>>
  BY <1>2, LoginShape DEF FailoverReLoginAvatar
<1>3. ASSUME NEW name \in Name, GetAnyAvatar(name)
      PROVE  UNCHANGED stored /\ \E c : LookupStep(c)
  BY <1>3, LookupShape
<1>4. ASSUME NEW name \in Name, NEW a \in Avatar,
             AddFriend(a, name) \/ RemoveFriend(a, name)
                \/ AddIgnore(a, name) \/ RemoveIgnore(a, name)
      PROVE  UNCHANGED stored /\ \E c, b, at, o : b \in Avatar /\ ListsStep(c, a, b, at, o)
  <2>1. PICK c, b, at, o : b \in Avatar /\ ListsStep(c, a, b, at, o)
    BY <1>4, ListsShape
  <2> QED  BY <2>1 DEF ListsStep, Kept
<1>5. ASSUME NEW a \in Avatar, LogoutAvatar(a)
      PROVE  UNCHANGED stored /\ \E c : LogoutStep(c, a)
  BY <1>5, LogoutShape
<1> QED  BY <1>1, <1>2, <1>3, <1>4, <1>5 DEF Next

-----------------------------------------------------------------------------
(***************************************************************************)
(* The online list is sound.                                               *)
(***************************************************************************)
\* OnlineListSound of any cache and list.
ListSound(c, list) ==
    /\ list \in Seq(Ref) /\ Distinct(list)
    /\ \A x \in Entries(list) : x[2] \in DOMAIN c[x[1]] /\ At(c, x).online
    /\ \A b \in Avatar : 1 \in DOMAIN c[b] /\ c[b][1].online => Listed(list, b)

Base == TypeOK /\ Tables /\ Sane(cache, stored) /\ ListSound(cache, onlineAvatars)

\* A sequence has a first element unless it is empty.
LEMMA NotEmpty ==
    ASSUME NEW c, NEW st, Sane(c, st), NEW b \in Avatar
    PROVE  c[b] # <<>> <=> 1 \in DOMAIN c[b]
<1>1. c[b] \in Seq(Object) /\ DOMAIN c[b] = 1..Len(c[b]) /\ Len(c[b]) \in Nat
  BY LenProperties DEF Sane
<1>2. c[b] = <<>> <=> Len(c[b]) = 0
  BY <1>1, EmptySeq
<1> QED  BY <1>1, <1>2

\* The list of online avatars is as it should be.
LEMMA BaseMeans == Base => OnlineSound
<1> SUFFICES ASSUME Base PROVE OnlineSound
  OBVIOUS
<1>1. \A i, j \in DOMAIN onlineAvatars : onlineAvatars[i][1] = onlineAvatars[j][1] => i = j
  BY DEF Base, ListSound, Distinct
<1>2. \A i \in DOMAIN onlineAvatars : At(cache, onlineAvatars[i]).online
  BY DEF Base, ListSound, Entries
<1>3. \A a \in Avatar : cache[a] # <<>> /\ cache[a][1].online => Listed(onlineAvatars, a)
  BY NotEmpty DEF Base, ListSound
<1> QED  BY <1>1, <1>2, <1>3 DEF Base, OnlineSound, OnlineListSound

\* Loading leaves it sound, as what is loaded is not online.
LEMMA LoadedSound ==
    ASSUME Base, NEW c, Loaded(c)
    PROVE  ListSound(c, onlineAvatars)
<1>1. \A x \in Ref : x[1] \in Avatar
  BY DEF Ref
<1>2. \A x \in Entries(onlineAvatars) : x \in Ref
  <2>1. \A i \in DOMAIN onlineAvatars : onlineAvatars[i] \in Ref
    BY LenProperties, ElementOfSeq DEF Base, ListSound
  <2> QED  BY <2>1 DEF Entries
<1>3. \A x \in Entries(onlineAvatars) : x[2] \in DOMAIN c[x[1]] /\ At(c, x).online
  BY <1>1, <1>2 DEF Base, ListSound, Loaded, Grows, At
<1>4. \A b \in Avatar : 1 \in DOMAIN c[b] /\ c[b][1].online => Listed(onlineAvatars, b)
  BY DEF Base, ListSound, Loaded, Grows
<1> QED  BY <1>3, <1>4 DEF Base, ListSound

\* What a cache becomes by a load and a change of one object.
LEMMA CacheChange ==
    ASSUME NEW c, Loaded(c), NEW a \in Avatar, NEW k \in DOMAIN c[a], NEW o \in Object,
           Refers(c, o), cache' = With(c, a, k, o)
    PROVE  /\ Sane(cache, stored)'
           /\ \A b \in Avatar : DOMAIN cache'[b] = DOMAIN c[b] /\ DOMAIN cache[b] \subseteq DOMAIN c[b]
           /\ \A b \in Avatar : \A j \in DOMAIN c[b] :
                 cache'[b][j] = IF b = a /\ j = k THEN o ELSE c[b][j]
<1>1. Sane(c, stored') /\ \A b \in Avatar : DOMAIN cache[b] \subseteq DOMAIN c[b]
  BY DEF Loaded, Grows
<1>2. /\ Sane(cache', stored')
      /\ \A b \in Avatar : DOMAIN cache'[b] = DOMAIN c[b]
      /\ \A b \in Avatar : \A j \in DOMAIN c[b] :
            cache'[b][j] = IF b = a /\ j = k THEN o ELSE c[b][j]
  BY <1>1, WithSane
<1>3. Sane(cache, stored)'
  BY <1>2 DEF Sane, Refers
<1> QED  BY <1>1, <1>2, <1>3

\* The parts of TypeOK that the lemmas on caches and lists do not give.
LEMMA TypeKept ==
    ASSUME Sane(cache, stored)', ListSound(cache, onlineAvatars)', StoredGrows,
           told' \in [Avatar -> SUBSET Avatar], torn' \subseteq Avatar \X Avatar,
           web' \subseteq Avatar, unsettled' \subseteq Avatar,
           friendTable' \subseteq Avatar \X Avatar,
           \A row \in friendTable' : row \in friendTable \/ stored'[row[2]] # NoName,
           Tables
    PROVE  Base'
<1>1. \A i \in DOMAIN onlineAvatars' : onlineAvatars'[i][2] \in DOMAIN cache'[onlineAvatars'[i][1]]
  BY DEF ListSound, Entries
<1>2. RowsStocked'
  BY DEF RowsStocked, Tables, StoredGrows
<1> QED  BY <1>1, <1>2 DEF Base, TypeOK, Tables, Sane, ListSound, StoredGrows

\* A login keeps the base.
LEMMA LoginBase ==
    ASSUME Base, StoredGrows, NEW c, NEW a \in Avatar, NEW k, LoginStep(c, a, k)
    PROVE  Base'
<1> DEFINE o == [c[a][k] EXCEPT !.online = TRUE]
           ref == <<a, k>>
<1>1. /\ Loaded(c) /\ k \in DOMAIN c[a] /\ ref \in Ref /\ ref[1] = a /\ ref[2] = k
      /\ cache' = With(c, a, k, o)
      /\ onlineAvatars' = Enlist(onlineAvatars, ref)
      /\ torn' = torn \cup Misread(c) /\ UNCHANGED friendTable
  BY DEF LoginStep
<1>2. c[a][k] \in Object /\ Refers(c, c[a][k])
  BY <1>1, LenProperties, ElementOfSeq DEF Loaded, Sane
<1>3. o \in Object /\ Refers(c, o) /\ o.online
  BY <1>2 DEF Object, Refers
<1> HIDE DEF o, ref
<1>4. /\ Sane(cache, stored)'
      /\ \A b \in Avatar : DOMAIN cache'[b] = DOMAIN c[b]
      /\ \A b \in Avatar : \A j \in DOMAIN c[b] :
            cache'[b][j] = IF b = a /\ j = k THEN o ELSE c[b][j]
  BY <1>1, <1>3, CacheChange
<1>5. ListSound(c, onlineAvatars)
  BY <1>1, LoadedSound
<1>6. /\ onlineAvatars' \in Seq(Ref) /\ Distinct(onlineAvatars')
      /\ Entries(onlineAvatars') = IF Listed(onlineAvatars, a) THEN Entries(onlineAvatars)
                                   ELSE Entries(onlineAvatars) \cup {ref}
  BY <1>1, <1>5, Enlisted DEF ListSound
<1>7. ListSound(cache, onlineAvatars)'
  <2>1. \A x \in Entries(onlineAvatars') : x \in Ref
    <3>1. \A i \in DOMAIN onlineAvatars' : onlineAvatars'[i] \in Ref
      BY <1>6, LenProperties, ElementOfSeq
    <3> QED  BY <3>1 DEF Entries
  <2>2. ASSUME NEW x \in Entries(onlineAvatars')
        PROVE  x[2] \in DOMAIN cache'[x[1]] /\ cache'[x[1]][x[2]].online
    <3>1. x[1] \in Avatar
      BY <2>1 DEF Ref
    <3>2. CASE x = ref
      BY <1>1, <1>3, <1>4, <3>2
    <3>3. CASE x \in Entries(onlineAvatars)
      BY <1>3, <1>4, <1>5, <3>1, <3>3 DEF ListSound, At
    <3> QED  BY <1>6, <3>2, <3>3
  <2>3. ASSUME NEW b \in Avatar, 1 \in DOMAIN cache'[b], cache'[b][1].online
        PROVE  Listed(onlineAvatars', b)
    <3>1. \A d : Listed(onlineAvatars, d) => Listed(onlineAvatars', d)
      BY <1>6, EntriesTold
    <3>2. Listed(onlineAvatars', a)
      BY <1>1, <1>6, EntriesTold
    <3>3. CASE b # a
      BY <1>4, <1>5, <2>3, <3>1, <3>3 DEF ListSound
    <3> QED  BY <3>2, <3>3
  <2> QED  BY <1>6, <2>2, <2>3 DEF ListSound, At
<1>8. told' \in [Avatar -> SUBSET Avatar]
  <2>1. \A x \in Ref : x[1] \in Avatar
    BY DEF Ref
  <2>2. OnlineFriends(cache', At(cache', ref)) \subseteq Avatar
    BY <2>1 DEF OnlineFriends
  <2> HIDE DEF OnlineFriends
  <2>3. CASE UNCHANGED told
    BY <2>3 DEF Base, TypeOK
  <2>4. CASE SendFriendLoginUpdates(cache', onlineAvatars', ref)
    BY <1>1, <2>2, <2>4 DEF Base, TypeOK, SendFriendLoginUpdates
  <2> QED  BY <2>3, <2>4 DEF LoginStep, ref
<1>9. Misread(c) \subseteq Avatar \X Avatar
  BY DEF Misread
<1>10. web' \subseteq Avatar /\ unsettled' \subseteq Avatar
  BY DEF LoginStep, Base, TypeOK
<1> QED
  BY <1>1, <1>4, <1>7, <1>8, <1>9, <1>10, TypeKept DEF Base, TypeOK

\* A logout keeps the base.
LEMMA LogoutBase ==
    ASSUME Base, StoredGrows, NEW c, NEW a \in Avatar, LogoutStep(c, a)
    PROVE  Base'
<1> DEFINE o == [c[a][1] EXCEPT !.online = FALSE]
           was == c[a][1].online
<1>1. /\ Loaded(c) /\ 1 \in DOMAIN c[a]
      /\ cache' = With(c, a, 1, o)
      /\ onlineAvatars' = IF was THEN Delist(onlineAvatars, a) ELSE onlineAvatars
      /\ torn' = torn \cup Misread(c) /\ UNCHANGED friendTable
  BY DEF LogoutStep
<1>2. c[a][1] \in Object /\ Refers(c, c[a][1])
  BY <1>1, LenProperties, ElementOfSeq DEF Loaded, Sane
<1>3. o \in Object /\ Refers(c, o) /\ ~o.online
  BY <1>2 DEF Object, Refers
<1> HIDE DEF o
<1>4. /\ Sane(cache, stored)'
      /\ \A b \in Avatar : DOMAIN cache'[b] = DOMAIN c[b]
      /\ \A b \in Avatar : \A j \in DOMAIN c[b] :
            cache'[b][j] = IF b = a /\ j = 1 THEN o ELSE c[b][j]
  BY <1>1, <1>3, CacheChange
<1>5. ListSound(c, onlineAvatars)
  BY <1>1, LoadedSound
<1>6. /\ onlineAvatars' \in Seq(Ref) /\ Distinct(onlineAvatars')
      /\ Entries(onlineAvatars') = IF was THEN {x \in Entries(onlineAvatars) : x[1] # a}
                                   ELSE Entries(onlineAvatars)
  <2>1. CASE was
    <3>1. Listed(onlineAvatars, a)
      BY <1>1, <1>5, <2>1 DEF ListSound
    <3> QED  BY <1>1, <1>5, <2>1, <3>1, Delisted DEF ListSound
  <2>2. CASE ~was
    BY <1>1, <1>5, <2>2 DEF ListSound
  <2> QED  BY <2>1, <2>2
<1>7. ListSound(cache, onlineAvatars)'
  <2>1. \A x \in Entries(onlineAvatars') : x \in Ref
    <3>1. \A i \in DOMAIN onlineAvatars' : onlineAvatars'[i] \in Ref
      BY <1>6, LenProperties, ElementOfSeq
    <3> QED  BY <3>1 DEF Entries
  <2>2. ASSUME NEW x \in Entries(onlineAvatars')
        PROVE  x[2] \in DOMAIN cache'[x[1]] /\ cache'[x[1]][x[2]].online
    <3>1. x[1] \in Avatar /\ x \in Entries(onlineAvatars)
      BY <1>6, <2>1 DEF Ref
    <3>2. x[2] \in DOMAIN c[x[1]] /\ c[x[1]][x[2]].online
      BY <1>5, <3>1 DEF ListSound, At
    <3>3. ~(x[1] = a /\ x[2] = 1)
      BY <1>6, <3>2
    <3> QED  BY <1>4, <3>1, <3>2, <3>3
  <2>3. ASSUME NEW b \in Avatar, 1 \in DOMAIN cache'[b], cache'[b][1].online
        PROVE  Listed(onlineAvatars', b)
    <3>1. b # a /\ c[b][1].online /\ 1 \in DOMAIN c[b]
      BY <1>3, <1>4, <2>3
    <3>2. Listed(onlineAvatars, b)
      BY <1>5, <3>1 DEF ListSound
    <3> QED  BY <1>6, <3>1, <3>2, EntriesTold
  <2> QED  BY <1>6, <2>2, <2>3 DEF ListSound, At
<1>8. told' \in [Avatar -> SUBSET Avatar]
  BY DEF LogoutStep, Base, TypeOK
<1>9. Misread(c) \subseteq Avatar \X Avatar
  BY DEF Misread
<1>10. web' \subseteq Avatar /\ unsettled' \subseteq Avatar
  BY DEF LogoutStep, Base, TypeOK
<1> QED
  BY <1>1, <1>4, <1>7, <1>8, <1>9, <1>10, TypeKept DEF Base, TypeOK

\* Looking an avatar up keeps the base.
LEMMA LookupBase ==
    ASSUME Base, StoredGrows, NEW c, LookupStep(c)
    PROVE  Base'
<1>1. ListSound(c, onlineAvatars) /\ Misread(c) \subseteq Avatar \X Avatar
  BY LoadedSound DEF LookupStep, Misread
<1>2. ListSound(cache, onlineAvatars)' /\ Sane(cache, stored)'
  BY <1>1 DEF LookupStep, Loaded
<1> QED  BY <1>1, <1>2, TypeKept DEF LookupStep, Base, TypeOK

\* Changing friends or ignored keeps the base.
LEMMA ListsBase ==
    ASSUME Base, StoredGrows, NEW c, NEW a \in Avatar, NEW b \in Avatar,
           NEW at, NEW o, ListsStep(c, a, b, at, o)
    PROVE  Base'
<1>1. /\ Loaded(c) /\ 1 \in DOMAIN c[a] /\ cache' = With(c, a, 1, o) /\ o \in Object
      /\ Refers(c, o) /\ o.online = c[a][1].online
      /\ UNCHANGED <<onlineAvatars, web, unsettled>>
      /\ at \in Ref /\ at[1] = b /\ at[2] \in DOMAIN c[b]
  BY DEF ListsStep, Kept
<1>2. /\ Sane(cache, stored)'
      /\ \A d \in Avatar : DOMAIN cache'[d] = DOMAIN c[d]
      /\ \A d \in Avatar : \A j \in DOMAIN c[d] :
            cache'[d][j] = IF d = a /\ j = 1 THEN o ELSE c[d][j]
  BY <1>1, CacheChange
<1>3. ListSound(c, onlineAvatars)
  BY <1>1, LoadedSound
<1>4. ListSound(cache, onlineAvatars)'
  <2>1. \A x \in Entries(onlineAvatars) : x[1] \in Avatar
    <3>1. \A i \in DOMAIN onlineAvatars : onlineAvatars[i] \in Ref
      BY <1>3, LenProperties, ElementOfSeq DEF ListSound
    <3> QED  BY <3>1 DEF Entries, Ref
  <2>2. \A x \in Entries(onlineAvatars) : x[2] \in DOMAIN cache'[x[1]] /\ cache'[x[1]][x[2]].online
    BY <1>1, <1>2, <1>3, <2>1 DEF ListSound, At
  <2>3. \A d \in Avatar : 1 \in DOMAIN cache'[d] /\ cache'[d][1].online => Listed(onlineAvatars, d)
    BY <1>1, <1>2, <1>3 DEF ListSound
  <2> QED  BY <1>1, <1>3, <2>2, <2>3 DEF ListSound, At
<1>5. stored'[b] # NoName
  BY <1>1, EmptySeq DEF Loaded, Sane
<1>6. /\ told' \in [Avatar -> SUBSET Avatar]
      /\ friendTable' \subseteq friendTable \cup {<<a, b>>}
      /\ torn' \subseteq Avatar \X Avatar
  <2>1. /\ told \in [Avatar -> SUBSET Avatar] /\ torn \subseteq Avatar \X Avatar
        /\ Misread(c) \subseteq Avatar \X Avatar
        /\ \A p : Doubled(a, c[a][1], p) \subseteq Avatar \X Avatar
    BY DEF Base, TypeOK, Misread, Doubled
  <2> HIDE DEF Misread, Doubled
  <2>2. TellIfOnline(c, a, at) => told' \in [Avatar -> SUBSET Avatar]
    BY <1>1, <2>1 DEF TellIfOnline
  <2>3. CASE FriendsStay(c, a, b, at, o)
    BY <2>1, <2>2, <2>3 DEF FriendsStay
  <2>4. CASE FriendAdded(c, a, b, at, o)
    BY <1>1, <2>1, <2>2, <2>4 DEF FriendAdded, PersistFriend
  <2>5. CASE FriendDropped(c, a, b, o)
    BY <2>1, <2>5 DEF FriendDropped
  <2> QED  BY <2>3, <2>4, <2>5 DEF ListsStep
<1>7. \A row \in friendTable' : row \in friendTable \/ stored'[row[2]] # NoName
  BY <1>5, <1>6
<1> QED  BY <1>1, <1>2, <1>4, <1>6, <1>7, TypeKept DEF Base, TypeOK

\* A process that starts knows nobody.
Nobody ==
    /\ cache = [a \in Avatar |-> <<>>] /\ onlineAvatars = <<>>
    /\ told = [a \in Avatar |-> {}] /\ torn = {}
    /\ web \subseteq Avatar /\ unsettled \subseteq Avatar /\ Tables

\* A process that has just started has the base.
LEMMA NobodyBase == Nobody => Base
<1> SUFFICES ASSUME Nobody PROVE Base
  OBVIOUS
<1>1. <<>> \in Seq(Object) /\ Len(<<>>) = 0 /\ DOMAIN <<>> = {} /\ <<>> \in Seq(Ref)
  BY EmptySeq
<1>2. Sane(cache, stored)
  BY <1>1, ChatAvatarServiceAssumption DEF Sane, Nobody
<1>3. ListSound(cache, onlineAvatars)
  BY <1>1 DEF ListSound, Distinct, Entries, Nobody
<1> QED  BY <1>1, <1>2, <1>3 DEF Base, Tables, TypeOK, Sane, Nobody

\* So have the initial states,
LEMMA InitBase == Init => Base
BY NobodyBase DEF Init, Nobody, Tables, RowsStocked

\* and what a crash leaves.
LEMMA CrashBase == Base /\ Crash => Base'
<1>1. Nobody' => Base'
  BY NobodyBase, PTL
<1>2. Base /\ Crash => Nobody'
  BY DEF Base, TypeOK, Tables, RowsStocked, Crash, Nobody
<1> QED  BY <1>1, <1>2

\* Every step keeps the base.
LEMMA BaseInductive == Base /\ [Next]_vars => Base'
<1> SUFFICES ASSUME Base, [Next]_vars PROVE Base'
  OBVIOUS
<1>1. CASE UNCHANGED vars
  <2>1. UNCHANGED <<cache, onlineAvatars, stored, friendTable, web, told, torn, unsettled>>
    BY <1>1 DEF vars
  <2>2. StoredGrows
    BY <2>1 DEF StoredGrows, Base, Tables
  <2>3. ListSound(cache, onlineAvatars)' /\ Sane(cache, stored)'
    BY <2>1 DEF Base
  <2> QED  BY <2>1, <2>2, <2>3, TypeKept DEF Base, TypeOK
<1>2. CASE Crash
  BY <1>2, CrashBase
<1>3. CASE Next /\ ~Crash
  <2>1. /\ StoredGrows
        /\ \/ \E c, a, k : a \in Avatar /\ LoginStep(c, a, k)
           \/ \E c, a : a \in Avatar /\ LogoutStep(c, a)
           \/ \E c : LookupStep(c)
           \/ \E c, a, b, at, o : a \in Avatar /\ b \in Avatar /\ ListsStep(c, a, b, at, o)
           \/ UNCHANGED <<cache, onlineAvatars, friendTable, web, told, torn, unsettled>>
    BY <1>3, StepShape DEF Base
  <2>2. CASE UNCHANGED <<cache, onlineAvatars, friendTable, web, told, torn, unsettled>>
    <3>1. ListSound(cache, onlineAvatars)'
      BY <2>2 DEF Base
    <3>2. Sane(cache, stored)'
      BY <2>1, <2>2 DEF Base, Sane, StoredGrows, Refers
    <3> QED  BY <2>1, <2>2, <3>1, <3>2, TypeKept DEF Base, TypeOK
  <2> QED  BY <2>1, <2>2, LoginBase, LogoutBase, LookupBase, ListsBase
<1> QED  BY <1>1, <1>2, <1>3

\* The online list has an entry for whoever is flagged online, one for each
\* avatar, and no reference dangles, whichever names avatars are asked for by,
\* cached twice or not: LogoutAvatar (ChatAvatarService.cpp) erases one entry, of
\* the avatar that logs out.
THEOREM OnlineListIsSound == Spec => []OnlineSound
<1>1. Spec => []Base
  BY InitBase, BaseInductive, PTL DEF Spec
<1> QED  BY <1>1, BaseMeans, PTL

-----------------------------------------------------------------------------
(***************************************************************************)
(* What the memory of an avatar that is cached once holds.                 *)
(***************************************************************************)
Single(c) == \A b \in Avatar : Len(c[b]) <= 1

Row(table, a, b) == IF <<a, b>> \in table THEN 1 ELSE 0

\* Object o of avatar a has the friends of the table, and ignores none of them,
\* but for the pairs of t.
Remembers(o, a, t, table) ==
    \A b \in Avatar : <<a, b>> \notin t =>
        /\ o.friends[<<b, 1>>] = Row(table, a, b)
        /\ ~(IsFriend(o, b) /\ IsIgnored(o, b))

AllRemember(c, t, table) ==
    \A a \in Avatar : 1 \in DOMAIN c[a] => Remembers(c[a][1], a, t, table)

Memory == Unaliased => AllRemember(cache, torn, friendTable)

\* While avatars are cached once, a contact is the first object of the friend.
LEMMA OneContact ==
    ASSUME NEW c, NEW st, Sane(c, st), Single(c)
    PROVE  /\ \A b \in Avatar : DOMAIN c[b] \subseteq {1}
           /\ \A o \in Object, b \in Avatar : Refers(c, o) =>
                 FriendRefs(o, b) \subseteq {<<b, 1>>} /\ (IsFriend(o, b) <=> o.friends[<<b, 1>>] > 0)
<1>1. ASSUME NEW b \in Avatar PROVE DOMAIN c[b] \subseteq {1}
  <2>1. c[b] \in Seq(Object) /\ DOMAIN c[b] = 1..Len(c[b]) /\ Len(c[b]) \in Nat
    BY LenProperties DEF Sane
  <2> QED  BY <2>1 DEF Single
<1>2. ASSUME NEW o \in Object, NEW b \in Avatar, Refers(c, o)
      PROVE  FriendRefs(o, b) \subseteq {<<b, 1>>} /\ (IsFriend(o, b) <=> o.friends[<<b, 1>>] > 0)
  <2>1. <<b, 1>> \in Ref
    BY NullIsNoRef
  <2>2. ASSUME NEW x \in FriendRefs(o, b) PROVE x = <<b, 1>>
    <3>1. x \in Ref /\ x[1] = b /\ x[2] \in DOMAIN c[b]
      BY <1>2, <2>2 DEF FriendRefs, Refers
    <3>2. x[2] = 1
      BY <1>1, <3>1
    <3> QED  BY <3>1, <3>2 DEF Ref
  <2> QED  BY <2>1, <2>2 DEF FriendRefs, IsFriend
<1> QED  BY <1>1, <1>2

\* The online list and the flags agree then.
LEMMA FlagsMatch == Base => OnlineFlagMatchesList
<1> SUFFICES ASSUME Base, Unaliased, NEW a \in Avatar, NEW k \in DOMAIN cache[a]
             PROVE  cache[a][k].online <=> \E i \in DOMAIN onlineAvatars : onlineAvatars[i] = <<a, k>>
  BY DEF OnlineFlagMatchesList
<1>1. \A b \in Avatar : DOMAIN cache[b] \subseteq {1}
  BY OneContact DEF Base, Single, Unaliased
<1>2. k = 1
  BY <1>1
<1>3. ASSUME cache[a][k].online PROVE \E i \in DOMAIN onlineAvatars : onlineAvatars[i] = <<a, k>>
  <2>1. PICK i \in DOMAIN onlineAvatars : onlineAvatars[i][1] = a
    BY <1>2, <1>3 DEF Base, ListSound, Listed
  <2>2. onlineAvatars[i] \in Ref
    BY LenProperties, ElementOfSeq DEF Base, ListSound
  <2>3. onlineAvatars[i][2] = 1
    BY <1>1, <2>1 DEF Base, ListSound, Entries
  <2> QED  BY <1>2, <2>1, <2>2, <2>3 DEF Ref
<1>4. ASSUME NEW i \in DOMAIN onlineAvatars, onlineAvatars[i] = <<a, k>> PROVE cache[a][k].online
  BY <1>4 DEF Base, ListSound, Entries, At
<1> QED  BY <1>3, <1>4

\* Loading removes nobody from a cache.
LEMMA GrownFromSingle ==
    ASSUME Base, NEW c, Loaded(c), Single(c)
    PROVE  Unaliased
<1>0. \A b \in Avatar : DOMAIN c[b] \subseteq {1}
  BY OneContact DEF Loaded
<1>1. \A b \in Avatar : cache[b] \in Seq(Object) /\ DOMAIN cache[b] = 1..Len(cache[b])
                        /\ Len(cache[b]) \in Nat /\ DOMAIN cache[b] \subseteq {1}
  BY <1>0, LenProperties DEF Loaded, Grows, Base, Sane
<1>2. ASSUME NEW b \in Avatar, ~(Len(cache[b]) <= 1) PROVE FALSE
  <2> DEFINE n == Len(cache[b])
  <2>1. n \in Nat /\ ~(n <= 1) /\ DOMAIN cache[b] = 1..n /\ DOMAIN cache[b] \subseteq {1}
    BY <1>1, <1>2
  <2> HIDE DEF n
  <2>2. 2 \in 1..n
    BY <2>1
  <2> QED  BY <2>1, <2>2
<1> QED  BY <1>2 DEF Unaliased

\* What is loaded has the friends of the table, but for those misread.
LEMMA LoadedRemembers ==
    ASSUME Base, Memory, NEW c, Loaded(c), Single(c)
    PROVE  AllRemember(c, torn \cup Misread(c), friendTable)
<1>2. Unaliased
  BY GrownFromSingle
<1>3. ASSUME NEW a \in Avatar, 1 \in DOMAIN c[a], NEW b \in Avatar,
             <<a, b>> \notin torn \cup Misread(c)
      PROVE  /\ c[a][1].friends[<<b, 1>>] = Row(friendTable, a, b)
             /\ ~(IsFriend(c[a][1], b) /\ IsIgnored(c[a][1], b))
  <2>1. CASE 1 \in DOMAIN cache[a]
    <3>1. c[a][1] = cache[a][1]
      BY <2>1 DEF Loaded, Grows
    <3> QED  BY <1>2, <1>3, <2>1, <3>1 DEF Memory, AllRemember, Remembers
  <2>2. CASE 1 \notin DOMAIN cache[a]
    <3>1. c[a][1].ignored = {}
      BY <1>3, <2>2 DEF Loaded, Grows
    <3>2. Len(c[a]) = 1 /\ Len(cache[a]) = 0
      <4>1. /\ DOMAIN c[a] = 1..Len(c[a]) /\ Len(c[a]) \in Nat
            /\ DOMAIN cache[a] = 1..Len(cache[a]) /\ Len(cache[a]) \in Nat
        BY LenProperties DEF Loaded, Base, Sane
      <4>2. Len(c[a]) <= 1
        BY DEF Single
      <4> DEFINE m == Len(c[a])
                 n == Len(cache[a])
      <4>3. m \in Nat /\ m <= 1 /\ 1 \in 1..m /\ n \in Nat /\ 1 \notin 1..n
        BY <1>3, <2>2, <4>1, <4>2
      <4> HIDE DEF m, n
      <4>4. m = 1 /\ n = 0
        BY <4>3
      <4> QED  BY <4>4 DEF m, n
    <3>3. c[a][1].friends[<<b, 1>>] = IF <<a, b>> \in friendTable THEN 1 ELSE 0
      BY <1>3, <3>2 DEF Misread
    <3> QED  BY <3>1, <3>3 DEF Row, IsIgnored
  <2> QED  BY <2>1, <2>2
<1> QED  BY <1>3 DEF AllRemember, Remembers

\* A step that changes one object leaves the memory right if it leaves that object
\* right, and changes no rows of others.
LEMMA MemoryKept ==
    ASSUME Base, Memory, NEW c, Loaded(c), NEW a \in Avatar, NEW k \in DOMAIN c[a], NEW o \in Object,
           Refers(c, o), cache' = With(c, a, k, o), torn \cup Misread(c) \subseteq torn',
           \A d, e \in Avatar : d # a => (<<d, e>> \in friendTable' <=> <<d, e>> \in friendTable),
           Single(c) /\ Remembers(c[a][1], a, torn \cup Misread(c), friendTable) =>
               Remembers(o, a, torn', friendTable')
    PROVE  Memory'
<1> SUFFICES ASSUME Unaliased' PROVE AllRemember(cache', torn', friendTable')
  BY DEF Memory, AllRemember, Remembers, Row, IsFriend, IsIgnored, FriendRefs
<1>1. /\ \A b \in Avatar : DOMAIN cache'[b] = DOMAIN c[b]
      /\ \A b \in Avatar : \A j \in DOMAIN c[b] :
            cache'[b][j] = IF b = a /\ j = k THEN o ELSE c[b][j]
      /\ Sane(cache, stored)'
  BY CacheChange
<1>2. Single(c)
  <2>1. \A b \in Avatar : Len(cache'[b]) = Len(c[b])
    BY WithSane DEF Loaded
  <2> QED  BY <2>1 DEF Unaliased, Single
<1>3. AllRemember(c, torn \cup Misread(c), friendTable)
  BY <1>2, LoadedRemembers
<1>4. k = 1
  BY <1>2, OneContact DEF Loaded
<1>5. ASSUME NEW d \in Avatar, 1 \in DOMAIN cache'[d]
      PROVE  Remembers(cache'[d][1], d, torn', friendTable')
  <2>1. Remembers(c[d][1], d, torn \cup Misread(c), friendTable)
    BY <1>1, <1>3, <1>5 DEF AllRemember
  <2>2. CASE d = a
    BY <1>1, <1>2, <1>4, <1>5, <2>1, <2>2
  <2>3. CASE d # a
    <3>1. cache'[d][1] = c[d][1]
      BY <1>1, <1>5, <2>3
    <3>2. \A e \in Avatar : Row(friendTable', d, e) = Row(friendTable, d, e)
      BY <2>3 DEF Row
    <3> HIDE DEF Row
    <3>3. ASSUME NEW e \in Avatar, <<d, e>> \notin torn'
          PROVE  <<d, e>> \notin torn \cup Misread(c)
      BY <3>3
    <3> QED  BY <2>1, <3>1, <3>2, <3>3 DEF Remembers
  <2> QED  BY <2>2, <2>3
<1> QED  BY <1>5 DEF AllRemember

\* Objects with the same friends, that ignore no more, are as right.
LEMMA SameFriends ==
    ASSUME NEW o, NEW p, p.friends = o.friends, p.ignored \subseteq o.ignored,
           NEW a \in Avatar, NEW t, NEW u, t \subseteq u, NEW table, Remembers(o, a, t, table)
    PROVE  Remembers(p, a, u, table)
<1>1. \A b : IsFriend(p, b) <=> IsFriend(o, b)
  BY DEF IsFriend, FriendRefs
<1>2. \A b : IsIgnored(p, b) => IsIgnored(o, b)
  BY DEF IsIgnored
<1>3. \A b \in Avatar : <<a, b>> \notin u => <<a, b>> \notin t
  OBVIOUS
<1> QED  BY <1>1, <1>2, <1>3 DEF Remembers

\* A login leaves friends as they were, or loads them.
LEMMA LoginMemory ==
    ASSUME Base, Memory, NEW c, NEW a \in Avatar, NEW k, LoginStep(c, a, k)
    PROVE  Memory'
<1> DEFINE o == [c[a][k] EXCEPT !.online = TRUE]
<1>1. /\ Loaded(c) /\ k \in DOMAIN c[a] /\ cache' = With(c, a, k, o)
      /\ torn' = torn \cup Misread(c) /\ UNCHANGED friendTable
  BY DEF LoginStep
<1>2. c[a][k] \in Object /\ Refers(c, c[a][k])
  BY <1>1, LenProperties, ElementOfSeq DEF Loaded, Sane
<1>3. /\ o \in Object /\ Refers(c, o)
      /\ o.friends = c[a][k].friends /\ o.ignored = c[a][k].ignored
  BY <1>2 DEF Object, Refers
<1> HIDE DEF o
<1>4. ASSUME Single(c), Remembers(c[a][1], a, torn \cup Misread(c), friendTable)
      PROVE  Remembers(o, a, torn', friendTable')
  <2>1. k = 1
    BY <1>1, <1>4, OneContact DEF Loaded
  <2> QED  BY <1>1, <1>3, <1>4, <2>1, SameFriends
<1> QED  BY <1>1, <1>3, <1>4, MemoryKept

\* A logout takes objects out of the cache and changes none.
LEMMA LogoutMemory ==
    ASSUME Base, Memory, NEW c, NEW a \in Avatar, LogoutStep(c, a)
    PROVE  Memory'
<1> DEFINE o == [c[a][1] EXCEPT !.online = FALSE]
<1>1. /\ Loaded(c) /\ 1 \in DOMAIN c[a] /\ cache' = With(c, a, 1, o)
      /\ torn' = torn \cup Misread(c) /\ UNCHANGED friendTable
  BY DEF LogoutStep
<1>2. c[a][1] \in Object /\ Refers(c, c[a][1])
  BY <1>1, LenProperties, ElementOfSeq DEF Loaded, Sane
<1>3. /\ o \in Object /\ Refers(c, o)
      /\ o.friends = c[a][1].friends /\ o.ignored = c[a][1].ignored
  BY <1>2 DEF Object, Refers
<1> HIDE DEF o
<1>4. Remembers(c[a][1], a, torn \cup Misread(c), friendTable) =>
          Remembers(o, a, torn', friendTable')
  BY <1>1, <1>3, SameFriends
<1> QED  BY <1>1, <1>3, <1>4, MemoryKept

\* Looking an avatar up loads what the table has.
LEMMA LookupMemory ==
    ASSUME Base, Memory, NEW c, LookupStep(c)
    PROVE  Memory'
<1>1. cache' = c /\ Loaded(c) /\ torn' = torn \cup Misread(c) /\ UNCHANGED friendTable
  BY DEF LookupStep
<1>2. Single(c) => AllRemember(c, torn \cup Misread(c), friendTable)
  BY <1>1, LoadedRemembers
<1>3. Unaliased' => Single(c)
  BY <1>1 DEF Unaliased, Single
<1>4. Unaliased' => AllRemember(cache', torn', friendTable')
  BY <1>1, <1>2, <1>3
<1> QED  BY <1>4 DEF Memory, AllRemember, Remembers, Row, IsFriend, IsIgnored, FriendRefs

\* Friends change in memory and in the table, or the pair is torn.
LEMMA ListsMemory ==
    ASSUME Base, Memory, NEW c, NEW a \in Avatar, NEW b \in Avatar, NEW at, NEW o,
           ListsStep(c, a, b, at, o)
    PROVE  Memory'
<1> DEFINE old == c[a][1]
           t == torn \cup Misread(c)
<1>1. /\ Loaded(c) /\ a # b /\ 1 \in DOMAIN c[a] /\ cache' = With(c, a, 1, o)
      /\ o \in Object /\ Refers(c, o)
      /\ at \in Ref /\ at[1] = b /\ at[2] \in DOMAIN c[b]
      /\ FriendsStay(c, a, b, at, o) \/ FriendAdded(c, a, b, at, o) \/ FriendDropped(c, a, b, o)
  BY DEF ListsStep, Kept
<1>2. old \in Object /\ Refers(c, old)
  BY <1>1, LenProperties, ElementOfSeq DEF Loaded, Sane
<1> HIDE DEF old
<1>3. t \subseteq torn' /\ \A d, e \in Avatar : d # a =>
                              (<<d, e>> \in friendTable' <=> <<d, e>> \in friendTable)
  BY <1>1 DEF FriendsStay, FriendAdded, PersistFriend, FriendDropped
<1>4. ASSUME Single(c), Remembers(old, a, t, friendTable)
      PROVE  Remembers(o, a, torn', friendTable')
  <2>1. /\ \A d \in Avatar : DOMAIN c[d] \subseteq {1}
        /\ \A p \in Object, d \in Avatar : Refers(c, p) =>
              FriendRefs(p, d) \subseteq {<<d, 1>>} /\ (IsFriend(p, d) <=> p.friends[<<d, 1>>] > 0)
    BY <1>1, <1>4, OneContact DEF Loaded
  <2>2. /\ \A d \in Avatar : IsFriend(old, d) <=> old.friends[<<d, 1>>] > 0
        /\ \A d \in Avatar : IsFriend(o, d) <=> o.friends[<<d, 1>>] > 0
        /\ FriendRefs(old, b) \subseteq {<<b, 1>>}
    BY <1>1, <1>2, <2>1
  <2>3. \A d \in Avatar : <<d, 1>> \in Contact
    BY NullIsNoRef DEF Contact
  <2>4. old.friends \in [Contact -> Nat] /\ o.friends \in [Contact -> Nat]
    BY <1>1, <1>2 DEF Object
  <2>5. \A d \in Avatar : <<a, d>> \notin torn' =>
            /\ <<a, d>> \notin t
            /\ old.friends[<<d, 1>>] = Row(friendTable, a, d)
            /\ ~(IsFriend(old, d) /\ d \in old.ignored)
    BY <1>3, <1>4 DEF Remembers, IsIgnored
  <2> HIDE DEF t
  <2> SUFFICES ASSUME NEW d \in Avatar, <<a, d>> \notin torn'
               PROVE  /\ o.friends[<<d, 1>>] = Row(friendTable', a, d)
                      /\ ~(IsFriend(o, d) /\ d \in o.ignored)
    BY DEF Remembers, IsIgnored
  <2>6. CASE FriendsStay(c, a, b, at, o)
    <3>1. /\ o.friends = old.friends /\ UNCHANGED friendTable
          /\ \/ o.ignored \subseteq old.ignored
             \/ o.ignored = old.ignored \cup {b} /\ ~IsFriend(old, b)
      BY <2>6 DEF FriendsStay, old
    <3>2. Row(friendTable', a, d) = Row(friendTable, a, d)
      BY <3>1
    <3> QED  BY <2>2, <2>5, <3>1, <3>2
  <2>7. CASE FriendAdded(c, a, b, at, o)
    <3>1. at = <<b, 1>>
      BY <1>1, <2>1 DEF Ref
    <3>2. /\ ~IsFriend(old, b) /\ b \notin old.ignored /\ o.ignored = old.ignored
          /\ o.friends = [old.friends EXCEPT ![<<b, 1>>] = old.friends[<<b, 1>>] + 1]
      BY <2>7, <3>1 DEF FriendAdded, IsIgnored, old
    <3>3. /\ d # b => o.friends[<<d, 1>>] = old.friends[<<d, 1>>]
          /\ d = b => o.friends[<<d, 1>>] = 1
      <4>1. old.friends[<<b, 1>>] = 0
        BY <2>2, <2>3, <2>4, <3>2
      <4> QED  BY <2>3, <2>4, <3>2, <4>1
    <3>4. CASE d = b
      <4>1. <<a, b>> \in friendTable'
        BY <2>7, <3>1, <3>4 DEF FriendAdded, PersistFriend
      <4> QED  BY <3>2, <3>3, <3>4, <4>1 DEF Row
    <3>5. CASE d # b
      <4>1. <<a, d>> \in friendTable' <=> <<a, d>> \in friendTable
        BY <2>7, <3>1, <3>5 DEF FriendAdded, PersistFriend
      <4>2. Row(friendTable', a, d) = Row(friendTable, a, d)
        BY <4>1 DEF Row
      <4> QED  BY <2>2, <2>5, <3>2, <3>3, <3>5, <4>2
    <3> QED  BY <3>4, <3>5
  <2>8. CASE FriendDropped(c, a, b, o)
    <3>1. PICK p \in WithoutFriend(old, b) :
             /\ o.friends = p.friends
             /\ \/ /\ o.ignored \in {old.ignored, old.ignored \cup {b}}
                   /\ friendTable' = friendTable \ {<<a, b>>}
                   /\ torn' = torn \cup Misread(c) \cup Doubled(a, old, p)
                \/ /\ o.ignored = old.ignored
                   /\ friendTable' \in {friendTable, friendTable \ {<<a, b>>}}
                   /\ torn' = torn \cup Misread(c) \cup ({<<a, b>>} \cup Doubled(a, old, p))
      BY <2>8 DEF FriendDropped, old
    <3>2. IsFriend(old, b)
      BY <2>8 DEF FriendDropped, old
    <3>3. PICK x \in FriendRefs(old, b) :
             \/ old.friends[x] = 1 /\ p.friends = [old.friends EXCEPT ![x] = 0]
             \/ /\ old.friends[x] > 1
                /\ \A y \in Contact : \/ y = x
                                      \/ p.friends[y] = old.friends[y]
                                      \/ p.friends[y] = old.friends[y] + 1
      BY <1>2, <3>1, <3>2, Erased
    <3>4. x = <<b, 1>>
      BY <2>2
    <3>5. d = b => /\ o.friends[<<d, 1>>] = 0
                   /\ friendTable' = friendTable \ {<<a, b>>}
      <4> SUFFICES ASSUME d = b PROVE o.friends[<<b, 1>>] = 0 /\ friendTable' = friendTable \ {<<a, b>>}
        OBVIOUS
      <4>1. friendTable' = friendTable \ {<<a, b>>}
        BY <3>1
      <4>2. ~(old.friends[<<b, 1>>] > 1)
        BY <2>5 DEF Row
      <4> QED  BY <2>3, <2>4, <3>1, <3>3, <3>4, <4>1, <4>2
    <3>6. CASE d = b
      <4>1. ~IsFriend(o, b)
        BY <2>2, <3>5, <3>6
      <4>2. Row(friendTable', a, b) = 0
        BY <3>5, <3>6 DEF Row
      <4> QED  BY <3>5, <3>6, <4>1, <4>2
    <3>7. CASE d # b
      <4>1. <<d, 1>> # x /\ <<d, 1>> \in Ref /\ <<d, 1>> \in Contact
        BY <3>4, <3>7, NullIsNoRef DEF Contact
      <4>2. p.friends[<<d, 1>>] # old.friends[<<d, 1>>] + 1
        <5> SUFFICES ASSUME p.friends[<<d, 1>>] = old.friends[<<d, 1>>] + 1
                     PROVE  <<a, d>> \in Doubled(a, old, p)
          BY <3>1
        <5>1. old.friends[<<d, 1>>] \in Nat
          BY <2>4, <4>1
        <5>2. p.friends[<<d, 1>>] > 0 /\ p.friends[<<d, 1>>] > old.friends[<<d, 1>>]
          BY <5>1
        <5>3. <<d, 1>> \in FriendRefs(p, d)
          BY <4>1, <5>2 DEF FriendRefs
        <5> QED  BY <5>2, <5>3 DEF Doubled
      <4>3. o.friends[<<d, 1>>] = old.friends[<<d, 1>>]
        BY <2>4, <3>1, <3>3, <4>1, <4>2
      <4>4. <<a, d>> \in friendTable' <=> <<a, d>> \in friendTable
        BY <3>1, <3>7
      <4>5. Row(friendTable', a, d) = Row(friendTable, a, d)
        BY <4>4 DEF Row
      <4>6. d \in o.ignored <=> d \in old.ignored
        BY <3>1, <3>7
      <4> QED  BY <2>2, <2>5, <4>3, <4>5, <4>6
    <3> QED  BY <3>6, <3>7
  <2> QED  BY <1>1, <2>6, <2>7, <2>8
<1> QED  BY <1>1, <1>3, <1>4, MemoryKept DEF old

\* Every step keeps memory and table in agreement, but for torn pairs.
LEMMA MemoryInductive == Base /\ Memory /\ [Next]_vars => Memory'
<1> SUFFICES ASSUME Base, Memory, [Next]_vars PROVE Memory'
  OBVIOUS
<1>1. CASE UNCHANGED <<cache, onlineAvatars, friendTable, web, told, torn, unsettled>>
  BY <1>1 DEF Memory, Unaliased, AllRemember, Remembers, Row, IsFriend, IsIgnored, FriendRefs
<1>2. CASE Crash
  <2>1. \A a \in Avatar : cache'[a] = <<>> /\ DOMAIN <<>> = {}
    BY <1>2, EmptySeq DEF Crash
  <2> QED  BY <2>1 DEF Memory, AllRemember
<1>3. CASE Next /\ ~Crash
  <2>1. \/ \E c, a, k : a \in Avatar /\ LoginStep(c, a, k)
        \/ \E c, a : a \in Avatar /\ LogoutStep(c, a)
        \/ \E c : LookupStep(c)
        \/ \E c, a, b, at, o : a \in Avatar /\ b \in Avatar /\ ListsStep(c, a, b, at, o)
        \/ UNCHANGED <<cache, onlineAvatars, friendTable, web, told, torn, unsettled>>
    BY <1>3, StepShape DEF Base
  <2> QED  BY <1>1, <2>1, LoginMemory, LogoutMemory, LookupMemory, ListsMemory
<1> QED  BY <1>1, <1>2, <1>3 DEF vars

\* What was to be shown of friends follows.
LEMMA MemoryMeans == Base /\ Memory => FriendsPersisted /\ FriendXorIgnored
<1> SUFFICES ASSUME Base, Memory, Unaliased, NEW a \in Avatar, NEW b \in Avatar,
                    NEW k \in DOMAIN cache[a], <<a, b>> \notin torn
             PROVE  /\ cache[a][k].friends[<<b, 1>>] = (IF <<a, b>> \in friendTable THEN 1 ELSE 0)
                    /\ ~(IsFriend(cache[a][k], b) /\ IsIgnored(cache[a][k], b))
  BY DEF FriendsPersisted, FriendXorIgnored
<1>1. k = 1
  BY OneContact DEF Base, Single, Unaliased
<1> QED  BY <1>1 DEF Memory, AllRemember, Remembers, Row

\* Until an avatar is cached twice, the flag by which friends are shown online and
\* the list by which they are sent messages agree, for every object
\* (ChatAvatarService.cpp).
THEOREM FlagsMatchList == Spec => []OnlineFlagMatchesList
<1>1. Spec => []Base
  BY InitBase, BaseInductive, PTL DEF Spec
<1> QED  BY <1>1, FlagsMatch, PTL

\* A process that starts remembers nothing wrong.
LEMMA InitMemory == Init => Memory
BY EmptySeq DEF Init, Memory, AllRemember

\* Until an avatar is cached twice, its friends in memory are the rows of the table,
\* each once, unless the player was told DATABASE, a read went wrong, or the
\* removal of a friend listed twice spilt over (ChatAvatar.cpp, and the
\* statements of ChatAvatarService.cpp).
THEOREM FriendsArePersisted == Spec => []FriendsPersisted
<1>1. Spec => [](Base /\ Memory)
  BY InitBase, BaseInductive, InitMemory, MemoryInductive, PTL DEF Spec
<1> QED  BY <1>1, MemoryMeans, PTL

\* Until an avatar is cached twice, nobody is its friend and ignored by it at once,
\* with the same exceptions: AddIgnore removes the friend, AddFriend needs
\* RemoveIgnore, and a failed statement stops each of them half-way
\* (ChatAvatar.cpp).
THEOREM FriendsNotIgnored == Spec => []FriendXorIgnored
<1>1. Spec => [](Base /\ Memory)
  BY InitBase, BaseInductive, InitMemory, MemoryInductive, PTL DEF Spec
<1> QED  BY <1>1, MemoryMeans, PTL

-----------------------------------------------------------------------------
(***************************************************************************)
(* Presence, while avatars are cached once: it is a matter of the first    *)
(* object of each.                                                         *)
(***************************************************************************)
On(c, a) == 1 \in DOMAIN c[a] /\ c[a][1].online

Knows(c, a, b) == c[a][1].friends[<<b, 1>>] > 0

\* The servers were told of friends online and of no others, but for the pairs of
\* t, and the avatars of u.
ToldRight(c, says, t, u) ==
    /\ \A a \in Avatar : \A b \in says[a] : On(c, a) /\ On(c, b) /\ Knows(c, a, b)
    /\ \A a, b \in Avatar : /\ a \notin u /\ b \notin u /\ <<a, b>> \notin t
                            /\ On(c, a) /\ On(c, b) /\ Knows(c, a, b)
                            => b \in says[a]

\* What the website shows is online, cached twice or not.
WebShowsListed == \A a \in web \ unsettled : Listed(onlineAvatars, a)

Presence ==
    /\ WebShowsListed
    /\ Unaliased => /\ ToldRight(cache, told, torn, unsettled)
                    /\ \A a \in Avatar \ unsettled : On(cache, a) => a \in web

\* The list, the watchers and the friends online, in these terms.
LEMMA PresenceOf ==
    ASSUME NEW c, NEW st, NEW list, Sane(c, st), Single(c), ListSound(c, list)
    PROVE  /\ \A a \in Avatar : Listed(list, a) <=> On(c, a)
           /\ \A a \in Avatar : Watchers(c, list, a) = {x \in Avatar : On(c, x) /\ Knows(c, x, a)}
           /\ \A o \in Object : Refers(c, o) =>
                 OnlineFriends(c, o) = {b \in Avatar : o.friends[<<b, 1>>] > 0 /\ On(c, b)}
<1>1. \A b \in Avatar : DOMAIN c[b] \subseteq {1}
  BY OneContact
<1>2. \A x \in Ref : x[1] \in Avatar /\ (x[2] = 1 => x = <<x[1], 1>>)
  BY DEF Ref
<1>3. \A x \in Entries(list) : x \in Ref /\ x = <<x[1], 1>> /\ On(c, x[1])
  <2>1. \A i \in DOMAIN list : list[i] \in Ref
    BY LenProperties, ElementOfSeq DEF ListSound
  <2>2. \A x \in Entries(list) : x \in Ref /\ x[2] \in DOMAIN c[x[1]] /\ c[x[1]][x[2]].online
    BY <2>1 DEF Entries, ListSound, At
  <2>3. \A x \in Entries(list) : x[2] = 1
    BY <1>1, <1>2, <2>2
  <2> QED  BY <1>2, <2>2, <2>3 DEF On
<1>4. \A a \in Avatar : On(c, a) <=> <<a, 1>> \in Entries(list)
  <2>1. ASSUME NEW a \in Avatar, On(c, a) PROVE <<a, 1>> \in Entries(list)
    <3>1. Listed(list, a)
      BY <2>1 DEF ListSound, On
    <3>2. PICK x \in Entries(list) : x[1] = a
      BY <3>1, EntriesTold
    <3> QED  BY <1>3, <3>2
  <2>2. ASSUME NEW a \in Avatar, <<a, 1>> \in Entries(list) PROVE On(c, a)
    BY <1>3, <2>2
  <2> QED  BY <2>1, <2>2
<1>5. \A a \in Avatar : Listed(list, a) <=> On(c, a)
  <2>1. \A a \in Avatar : Listed(list, a) <=> \E x \in Entries(list) : x[1] = a
    BY EntriesTold
  <2> QED  BY <1>3, <1>4, <2>1
<1>6. \A o \in Object, b \in Avatar : Refers(c, o) => (IsFriend(o, b) <=> o.friends[<<b, 1>>] > 0)
  BY OneContact
<1>7. \A b \in Avatar : 1 \in DOMAIN c[b] => c[b][1] \in Object /\ Refers(c, c[b][1])
  BY LenProperties, ElementOfSeq DEF Sane
<1>8. ASSUME NEW a \in Avatar
      PROVE  Watchers(c, list, a) = {x \in Avatar : On(c, x) /\ Knows(c, x, a)}
  <2>1. \A x \in Avatar : On(c, x) => (IsFriend(At(c, <<x, 1>>), a) <=> Knows(c, x, a))
    BY <1>6, <1>7 DEF On, Knows, At
  <2>2. Watchers(c, list, a) = {x[1] : x \in {y \in Entries(list) : IsFriend(At(c, y), a)}}
    BY EntriesTold
  <2>3. ASSUME NEW x \in Avatar
        PROVE  x \in Watchers(c, list, a) <=> On(c, x) /\ Knows(c, x, a)
    <3>1. ASSUME x \in Watchers(c, list, a) PROVE On(c, x) /\ Knows(c, x, a)
      <4>1. PICK y \in Entries(list) : IsFriend(At(c, y), a) /\ y[1] = x
        BY <2>2, <3>1
      <4>2. y = <<x, 1>> /\ On(c, x)
        BY <1>3, <4>1
      <4> QED  BY <2>1, <4>1, <4>2
    <3>2. ASSUME On(c, x), Knows(c, x, a) PROVE x \in Watchers(c, list, a)
      <4>1. <<x, 1>> \in Entries(list) /\ IsFriend(At(c, <<x, 1>>), a)
        BY <1>4, <2>1, <3>2
      <4> QED  BY <2>2, <4>1
    <3> QED  BY <3>1, <3>2
  <2>4. Watchers(c, list, a) \subseteq Avatar
    BY <1>2, <1>3, <2>2
  <2> QED  BY <2>3, <2>4
<1>9. ASSUME NEW o \in Object, Refers(c, o)
      PROVE  OnlineFriends(c, o) = {b \in Avatar : o.friends[<<b, 1>>] > 0 /\ On(c, b)}
  <2>1. ASSUME NEW y \in Ref, o.friends[y] > 0, At(c, y).online
        PROVE  y[1] \in Avatar /\ o.friends[<<y[1], 1>>] > 0 /\ On(c, y[1])
    <3>1. y[2] \in DOMAIN c[y[1]]
      BY <1>9, <2>1 DEF Refers
    <3>2. y[1] \in Avatar /\ y[2] = 1 /\ y = <<y[1], 1>>
      BY <1>1, <1>2, <3>1
    <3> QED  BY <2>1, <3>1, <3>2 DEF On, At
  <2>2. ASSUME NEW b \in Avatar, o.friends[<<b, 1>>] > 0, On(c, b)
        PROVE  <<b, 1>> \in {y \in Ref : o.friends[y] > 0 /\ At(c, y).online}
    BY <2>2, NullIsNoRef DEF On, At
  <2> QED  BY <2>1, <2>2 DEF OnlineFriends
<1> QED  BY <1>5, <1>8, <1>9

\* Nobody comes online by being loaded.
LEMMA LoadedOffline ==
    ASSUME Base, NEW c, Loaded(c), NEW a \in Avatar
    PROVE  /\ On(c, a) <=> On(cache, a)
           /\ On(c, a) => c[a][1] = cache[a][1]
<1>1. ASSUME On(c, a) PROVE 1 \in DOMAIN cache[a]
  BY <1>1 DEF Loaded, Grows, On
<1>2. ASSUME 1 \in DOMAIN cache[a] PROVE 1 \in DOMAIN c[a] /\ c[a][1] = cache[a][1]
  BY <1>2 DEF Loaded, Grows
<1> QED  BY <1>1, <1>2 DEF On

\* The loads of a step leave presence right.
LEMMA LoadedPresence ==
    ASSUME Base, Presence, NEW c, Loaded(c), Single(c)
    PROVE  /\ ToldRight(c, told, torn \cup Misread(c), unsettled)
           /\ \A a \in Avatar \ unsettled : On(c, a) => a \in web
           /\ \A a \in Avatar : Listed(onlineAvatars, a) <=> On(c, a)
           /\ \A a \in Avatar : Watchers(c, onlineAvatars, a)
                                   = {x \in Avatar : On(c, x) /\ Knows(c, x, a)}
           /\ told \in [Avatar -> SUBSET Avatar]
<1>1. Unaliased
  BY GrownFromSingle
<1>2. /\ \A a \in Avatar : On(c, a) <=> On(cache, a)
      /\ \A a, b \in Avatar : On(c, a) => (Knows(c, a, b) <=> Knows(cache, a, b))
  BY LoadedOffline DEF Knows
<1>3. told \in [Avatar -> SUBSET Avatar]
  BY DEF Base, TypeOK
<1>4. ToldRight(cache, told, torn, unsettled) /\ \A a \in Avatar \ unsettled : On(cache, a) => a \in web
  BY <1>1 DEF Presence
<1>5. ToldRight(c, told, torn \cup Misread(c), unsettled)
  <2>1. \A a \in Avatar : \A b \in told[a] : On(c, a) /\ On(c, b) /\ Knows(c, a, b)
    BY <1>2, <1>3, <1>4 DEF ToldRight
  <2> HIDE DEF On, Knows
  <2>2. \A a, b \in Avatar : /\ a \notin unsettled /\ b \notin unsettled
                             /\ <<a, b>> \notin torn \cup Misread(c)
                             /\ On(c, a) /\ On(c, b) /\ Knows(c, a, b)
                             => b \in told[a]
    BY <1>2, <1>4 DEF ToldRight
  <2> QED  BY <2>1, <2>2 DEF ToldRight
<1>6. ListSound(c, onlineAvatars)
  BY LoadedSound
<1>7. /\ \A a \in Avatar : Listed(onlineAvatars, a) <=> On(c, a)
      /\ \A a \in Avatar : Watchers(c, onlineAvatars, a)
                              = {x \in Avatar : On(c, x) /\ Knows(c, x, a)}
  BY <1>6, PresenceOf DEF Loaded
<1> QED  BY <1>2, <1>3, <1>4, <1>5, <1>7

\* Changing an object leaves the avatars cached as often as they were.
LEMMA StillSingle ==
    ASSUME NEW c, Loaded(c), NEW a \in Avatar, NEW k \in DOMAIN c[a], NEW o \in Object, Refers(c, o),
           cache' = With(c, a, k, o), Unaliased'
    PROVE  Single(c) /\ Single(cache') /\ k = 1
<1>1. \A b \in Avatar : Len(cache'[b]) = Len(c[b])
  BY WithSane DEF Loaded
<1>2. Single(c) /\ Single(cache')
  BY <1>1 DEF Unaliased, Single
<1> QED  BY <1>2, OneContact DEF Loaded

\* What has become of the first objects, if it is the first of a that becomes o.
LEMMA FirstObjects ==
    ASSUME Base, NEW c, Loaded(c), NEW a \in Avatar, 1 \in DOMAIN c[a], NEW o \in Object, Refers(c, o),
           cache' = With(c, a, 1, o)
    PROVE  /\ On(cache', a) <=> o.online
           /\ \A b \in Avatar : Knows(cache', a, b) <=> o.friends[<<b, 1>>] > 0
           /\ \A b \in Avatar : b # a => (On(cache', b) <=> On(c, b))
           /\ \A b, d \in Avatar : b # a /\ On(c, b) => (Knows(cache', b, d) <=> Knows(c, b, d))
<1>1. /\ \A b \in Avatar : DOMAIN cache'[b] = DOMAIN c[b]
      /\ \A b \in Avatar : \A j \in DOMAIN c[b] :
            cache'[b][j] = IF b = a /\ j = 1 THEN o ELSE c[b][j]
  BY CacheChange
<1> QED  BY <1>1 DEF On, Knows

\* Login: those who watch hear of it, and the server hears of the friends online.
LEMMA LoginPresence ==
    ASSUME Base, Base', Presence, NEW c, NEW a \in Avatar, NEW k, LoginStep(c, a, k)
    PROVE  Presence'
<1> DEFINE o == [c[a][k] EXCEPT !.online = TRUE]
           ref == <<a, k>>
           Goes == /\ web' = web \cup {a} /\ unsettled' = unsettled \ {a}
                   /\ SendFriendLoginUpdates(cache', onlineAvatars', ref)
           Fails == /\ web' \in {web, web \cup {a}} /\ unsettled' = unsettled \cup {a}
                    /\ UNCHANGED told
<1>1. /\ Loaded(c) /\ k \in DOMAIN c[a] /\ ref \in Ref
      /\ cache' = With(c, a, k, o)
      /\ onlineAvatars' = Enlist(onlineAvatars, ref)
      /\ torn' = torn \cup Misread(c)
      /\ Goes \/ Fails
  BY DEF LoginStep
<1>2. c[a][k] \in Object /\ Refers(c, c[a][k])
  BY <1>1, LenProperties, ElementOfSeq DEF Loaded, Sane
<1>3. /\ o \in Object /\ Refers(c, o) /\ o.online /\ o.friends = c[a][k].friends
  BY <1>2 DEF Object, Refers
<1> HIDE DEF o, ref
<1>4. WebShowsListed'
  <2>1. Entries(onlineAvatars') = IF Listed(onlineAvatars, ref[1]) THEN Entries(onlineAvatars)
                                  ELSE Entries(onlineAvatars) \cup {ref}
    BY <1>1, Enlisted DEF Base, ListSound
  <2>2. Listed(onlineAvatars', a)
    BY <2>1, EntriesTold DEF ref
  <2>3. \A b : Listed(onlineAvatars, b) => Listed(onlineAvatars', b)
    BY <2>1, EntriesTold
  <2>4. \A b \in web' \ unsettled' : b = a \/ b \in web \ unsettled
    BY <1>1
  <2> QED  BY <2>2, <2>3, <2>4 DEF WebShowsListed, Presence
<1> SUFFICES ASSUME Unaliased'
             PROVE  /\ ToldRight(cache', told', torn', unsettled')
                    /\ \A b \in Avatar \ unsettled' : On(cache', b) => b \in web'
  BY <1>4 DEF Presence, ToldRight, On, Knows, WebShowsListed
<1>5. Single(c) /\ Single(cache') /\ k = 1
  BY <1>1, <1>3, StillSingle
<1>6. /\ ToldRight(c, told, torn', unsettled)
      /\ \A b \in Avatar \ unsettled : On(c, b) => b \in web
      /\ told \in [Avatar -> SUBSET Avatar]
  BY <1>1, <1>5, LoadedPresence
<1>7. /\ On(cache', a)
      /\ \A b \in Avatar : b # a => (On(cache', b) <=> On(c, b))
      /\ \A b, d \in Avatar : b # a /\ On(c, b) => (Knows(cache', b, d) <=> Knows(c, b, d))
      /\ \A b \in Avatar : Knows(cache', a, b) <=> Knows(c, a, b)
      /\ \A b \in Avatar : Knows(cache', a, b) <=> o.friends[<<b, 1>>] > 0
  <2>1. \A b \in Avatar : Knows(c, a, b) <=> o.friends[<<b, 1>>] > 0
    BY <1>3, <1>5 DEF Knows
  <2> QED  BY <1>1, <1>3, <1>5, <2>1, FirstObjects
<1>8. \A b \in Avatar \ unsettled' : On(cache', b) => b \in web'
  BY <1>1, <1>6, <1>7
<1>9. /\ \A b \in Avatar : \A d \in told[b] : On(c, b) /\ On(c, d) /\ Knows(c, b, d) /\ d \in Avatar
      /\ \A b, d \in Avatar : /\ b \notin unsettled /\ d \notin unsettled /\ <<b, d>> \notin torn'
                              /\ On(c, b) /\ On(c, d) /\ Knows(c, b, d)
                              => d \in told[b]
  BY <1>6 DEF ToldRight
<1>10. CASE Fails
  <2> HIDE DEF On, Knows
  <2>1. \A b \in Avatar : \A d \in told'[b] : On(cache', b) /\ On(cache', d) /\ Knows(cache', b, d)
    BY <1>7, <1>9, <1>10
  <2>2. \A b, d \in Avatar : /\ b \notin unsettled' /\ d \notin unsettled' /\ <<b, d>> \notin torn'
                             /\ On(cache', b) /\ On(cache', d) /\ Knows(cache', b, d)
                             => d \in told'[b]
    BY <1>7, <1>9, <1>10
  <2> QED  BY <1>8, <2>1, <2>2 DEF ToldRight
<1>11. CASE Goes
  <2>1. At(cache', ref) = o /\ Refers(cache', o) /\ ref[1] = a
    <3>1. cache'[a][1] = o /\ \A b \in Avatar : DOMAIN cache'[b] = DOMAIN c[b]
      BY <1>1, <1>3, <1>5, CacheChange
    <3>2. \A x \in Ref : x[1] \in Avatar
      BY DEF Ref
    <3> QED  BY <1>3, <1>5, <3>1, <3>2 DEF At, Refers, ref
  <2>2. /\ Watchers(cache', onlineAvatars', a) = {x \in Avatar : On(cache', x) /\ Knows(cache', x, a)}
        /\ OnlineFriends(cache', o) = {b \in Avatar : o.friends[<<b, 1>>] > 0 /\ On(cache', b)}
    <3>1. Sane(cache', stored') /\ ListSound(cache', onlineAvatars')
      BY DEF Base, Sane, Refers, ListSound, Listed, Entries, At, Distinct
    <3> QED  BY <1>3, <1>5, <2>1, <3>1, PresenceOf
  <2>3. \A b \in Avatar : told'[b] =
           (IF b \in Watchers(cache', onlineAvatars', a) THEN told[b] \cup {a} ELSE told[b])
           \cup (IF b = a THEN OnlineFriends(cache', o) ELSE {})
    BY <1>11, <2>1 DEF SendFriendLoginUpdates
  <2>4. \A b \in Avatar : \A d : d \in told'[b] <=>
            \/ d \in told[b]
            \/ d = a /\ On(cache', b) /\ Knows(cache', b, a)
            \/ b = a /\ d \in Avatar /\ Knows(cache', a, d) /\ On(cache', d)
    BY <1>7, <2>2, <2>3
  <2> HIDE DEF On, Knows
  <2>5. \A b \in Avatar : \A d \in told'[b] : On(cache', b) /\ On(cache', d) /\ Knows(cache', b, d)
    BY <1>7, <1>9, <2>4
  <2>6. \A b, d \in Avatar : /\ b \notin unsettled' /\ d \notin unsettled' /\ <<b, d>> \notin torn'
                             /\ On(cache', b) /\ On(cache', d) /\ Knows(cache', b, d)
                             => d \in told'[b]
    BY <1>7, <1>9, <1>11, <2>4
  <2> QED  BY <1>8, <2>5, <2>6 DEF ToldRight
<1> QED  BY <1>1, <1>10, <1>11

\* Logout: those who watch hear of it.
LEMMA LogoutPresence ==
    ASSUME Base, Presence, NEW c, NEW a \in Avatar, LogoutStep(c, a)
    PROVE  Presence'
<1> DEFINE o == [c[a][1] EXCEPT !.online = FALSE]
           was == c[a][1].online
           told2(b) == IF b = a /\ was THEN {}
                       ELSE IF b \in Watchers(c, onlineAvatars, a) THEN told[b] \ {a}
                       ELSE told[b]
<1>1. /\ Loaded(c) /\ 1 \in DOMAIN c[a]
      /\ cache' = With(c, a, 1, o)
      /\ onlineAvatars' = IF was THEN Delist(onlineAvatars, a) ELSE onlineAvatars
      /\ \A b \in Avatar : told'[b] = told2(b)
      /\ torn' = torn \cup Misread(c)
      /\ \/ web' = web \ {a} /\ unsettled' = unsettled \ {a}
         \/ web' \in {web, web \ {a}} /\ unsettled' = unsettled \cup {a}
  BY DEF LogoutStep
<1>2. c[a][1] \in Object /\ Refers(c, c[a][1])
  BY <1>1, LenProperties, ElementOfSeq DEF Loaded, Sane
<1>3. o \in Object /\ Refers(c, o) /\ ~o.online /\ o.friends = c[a][1].friends
  BY <1>2 DEF Object, Refers
<1> HIDE DEF o
<1>4. WebShowsListed'
  <2>1. ListSound(c, onlineAvatars)
    BY <1>1, LoadedSound
  <2>2. CASE was
    <3>1. Listed(onlineAvatars, a)
      BY <1>1, <2>1, <2>2 DEF ListSound
    <3>2. Entries(onlineAvatars') = {x \in Entries(onlineAvatars) : x[1] # a}
      BY <1>1, <2>1, <2>2, <3>1, Delisted DEF ListSound
    <3>3. \A b : b # a /\ Listed(onlineAvatars, b) => Listed(onlineAvatars', b)
      BY <3>2, EntriesTold
    <3>4. \A b \in web' \ unsettled' : b # a /\ b \in web \ unsettled
      BY <1>1
    <3> QED  BY <3>3, <3>4 DEF WebShowsListed, Presence
  <2>3. CASE ~was
    BY <1>1, <2>3 DEF WebShowsListed, Presence
  <2> QED  BY <2>2, <2>3
<1> SUFFICES ASSUME Unaliased'
             PROVE  /\ ToldRight(cache', told', torn', unsettled')
                    /\ \A b \in Avatar \ unsettled' : On(cache', b) => b \in web'
  BY <1>4 DEF Presence, ToldRight, On, Knows, WebShowsListed
<1>5. Single(c)
  BY <1>1, <1>3, StillSingle
<1>6. /\ ToldRight(c, told, torn', unsettled)
      /\ \A b \in Avatar \ unsettled : On(c, b) => b \in web
      /\ told \in [Avatar -> SUBSET Avatar]
      /\ Watchers(c, onlineAvatars, a) = {x \in Avatar : On(c, x) /\ Knows(c, x, a)}
  BY <1>1, <1>5, LoadedPresence
<1>7. /\ ~On(cache', a)
      /\ \A b \in Avatar : b # a => (On(cache', b) <=> On(c, b))
      /\ \A b, d \in Avatar : b # a /\ On(c, b) => (Knows(cache', b, d) <=> Knows(c, b, d))
  BY <1>1, <1>3, FirstObjects
<1>8. \A b \in Avatar \ unsettled' : On(cache', b) => b \in web'
  BY <1>1, <1>6, <1>7
<1>9. /\ \A b \in Avatar : \A d \in told[b] : On(c, b) /\ On(c, d) /\ Knows(c, b, d) /\ d \in Avatar
      /\ \A b, d \in Avatar : /\ b \notin unsettled /\ d \notin unsettled /\ <<b, d>> \notin torn'
                              /\ On(c, b) /\ On(c, d) /\ Knows(c, b, d)
                              => d \in told[b]
  BY <1>6 DEF ToldRight
<1>10. On(c, a) <=> was
  BY <1>1 DEF On
<1> HIDE DEF On, Knows
<1>11. \A b \in Avatar : \A d \in told'[b] : d \in told[b] /\ d # a /\ b # a
  <2> SUFFICES ASSUME NEW b \in Avatar, NEW d \in told'[b] PROVE d \in told[b] /\ d # a /\ b # a
    OBVIOUS
  <2>1. d \in told[b]
    BY <1>1
  <2>2. On(c, b) /\ On(c, d) /\ Knows(c, b, d)
    BY <1>9, <2>1
  <2>3. b # a
    BY <1>1, <1>10, <2>2
  <2>4. d # a
    BY <1>1, <1>6, <2>2, <2>3
  <2> QED  BY <2>1, <2>3, <2>4
<1>12. \A b \in Avatar : \A d \in told'[b] : On(cache', b) /\ On(cache', d) /\ Knows(cache', b, d)
  BY <1>7, <1>9, <1>11
<1>13. \A b, d \in Avatar : /\ b \notin unsettled' /\ d \notin unsettled' /\ <<b, d>> \notin torn'
                            /\ On(cache', b) /\ On(cache', d) /\ Knows(cache', b, d)
                            => d \in told'[b]
  <2> SUFFICES ASSUME NEW b \in Avatar, NEW d \in Avatar, b \notin unsettled', d \notin unsettled',
                      <<b, d>> \notin torn', On(cache', b), On(cache', d), Knows(cache', b, d)
               PROVE  d \in told'[b]
    OBVIOUS
  <2>1. b # a /\ d # a
    BY <1>7
  <2>2. d \in told[b]
    BY <1>1, <1>7, <1>9, <2>1
  <2> QED  BY <1>1, <2>1, <2>2
<1> QED  BY <1>8, <1>12, <1>13 DEF ToldRight

\* A lookup tells nobody, and brings nobody online.
LEMMA LookupPresence ==
    ASSUME Base, Presence, NEW c, LookupStep(c)
    PROVE  Presence'
<1>1. /\ cache' = c /\ Loaded(c) /\ torn' = torn \cup Misread(c)
      /\ UNCHANGED <<onlineAvatars, web, told, unsettled>>
  BY DEF LookupStep
<1>2. WebShowsListed'
  BY <1>1 DEF WebShowsListed, Presence, Listed
<1>3. ASSUME Unaliased'
      PROVE  /\ ToldRight(cache', told', torn', unsettled')
             /\ \A b \in Avatar \ unsettled' : On(cache', b) => b \in web'
  <2>1. Single(c)
    BY <1>1, <1>3 DEF Unaliased, Single
  <2> QED  BY <1>1, <2>1, LoadedPresence
<1> QED  BY <1>2, <1>3 DEF Presence, ToldRight, On, Knows, WebShowsListed

\* Friends and ignores: the server of a hears what becomes of its friend b.
LEMMA ListsPresence ==
    ASSUME Base, Memory, Presence, NEW c, NEW a \in Avatar, NEW b \in Avatar, NEW at, NEW o,
           ListsStep(c, a, b, at, o)
    PROVE  Presence'
<1> DEFINE old == c[a][1]
           t == torn \cup Misread(c)
<1>1. /\ Loaded(c) /\ a # b /\ 1 \in DOMAIN c[a] /\ cache' = With(c, a, 1, o)
      /\ o \in Object /\ Refers(c, o) /\ o.online = old.online
      /\ at \in Ref /\ at[1] = b /\ at[2] \in DOMAIN c[b]
      /\ UNCHANGED <<onlineAvatars, web, unsettled>>
      /\ FriendsStay(c, a, b, at, o) \/ FriendAdded(c, a, b, at, o) \/ FriendDropped(c, a, b, o)
  BY DEF ListsStep, Kept
<1>2. old \in Object /\ Refers(c, old)
  BY <1>1, LenProperties, ElementOfSeq DEF Loaded, Sane
<1> HIDE DEF old
<1>3. WebShowsListed'
  BY <1>1 DEF WebShowsListed, Presence, Listed
<1> SUFFICES ASSUME Unaliased'
             PROVE  /\ ToldRight(cache', told', torn', unsettled')
                    /\ \A d \in Avatar \ unsettled' : On(cache', d) => d \in web'
  BY <1>3 DEF Presence, ToldRight, On, Knows, WebShowsListed
<1>4. Single(c)
  BY <1>1, StillSingle
<1>5. /\ ToldRight(c, told, t, unsettled)
      /\ \A d \in Avatar \ unsettled : On(c, d) => d \in web
      /\ told \in [Avatar -> SUBSET Avatar]
      /\ \A d \in Avatar : Listed(onlineAvatars, d) <=> On(c, d)
  BY <1>1, <1>4, LoadedPresence
<1>6. /\ \A d \in Avatar : On(cache', d) <=> On(c, d)
      /\ \A d, e \in Avatar : d # a /\ On(c, d) => (Knows(cache', d, e) <=> Knows(c, d, e))
      /\ \A d \in Avatar : Knows(cache', a, d) <=> o.friends[<<d, 1>>] > 0
      /\ \A d \in Avatar : Knows(c, a, d) <=> old.friends[<<d, 1>>] > 0
  <2>1. On(c, a) <=> old.online
    BY <1>1 DEF On, old
  <2>2. \A d \in Avatar : Knows(c, a, d) <=> old.friends[<<d, 1>>] > 0
    BY DEF Knows, old
  <2> QED  BY <1>1, <2>1, <2>2, FirstObjects
<1>7. \A d \in Avatar \ unsettled' : On(cache', d) => d \in web'
  BY <1>1, <1>5, <1>6
<1>8. at = <<b, 1>> /\ (At(c, at).online <=> On(c, b))
  <2>1. \A d \in Avatar : DOMAIN c[d] \subseteq {1}
    BY <1>1, <1>4, OneContact DEF Loaded
  <2> QED  BY <1>1, <2>1 DEF Ref, At, On
<1>9. TellIfOnline(c, a, at) =>
          \A d \in Avatar : \A e :
             e \in told'[d] <=> e \in told[d] \/ (d = a /\ e = b /\ On(c, a) /\ On(c, b))
  <2>1. TellIfOnline(c, a, at) =>
           told' = [told EXCEPT ![a] = IF On(c, a) /\ On(c, b) THEN told[a] \cup {b} ELSE told[a]]
    BY <1>1, <1>5, <1>8 DEF TellIfOnline
  <2> QED  BY <1>5, <2>1
<1>10. /\ \A d \in Avatar : \A e \in told[d] : On(c, d) /\ On(c, e) /\ Knows(c, d, e) /\ e \in Avatar
       /\ \A d, e \in Avatar : /\ d \notin unsettled /\ e \notin unsettled /\ <<d, e>> \notin t
                               /\ On(c, d) /\ On(c, e) /\ Knows(c, d, e)
                               => e \in told[d]
  BY <1>5 DEF ToldRight
<1>11. \A d \in Avatar : IsFriend(old, d) <=> Knows(c, a, d)
  BY <1>1, <1>2, <1>4, <1>6, OneContact DEF Loaded
<1>12. \A d \in Avatar : <<d, 1>> \in Contact
  BY NullIsNoRef DEF Contact
<1>13. old.friends \in [Contact -> Nat] /\ o.friends \in [Contact -> Nat]
  BY <1>1, <1>2 DEF Object
<1> SUFFICES ToldRight(cache', told', torn', unsettled')
  BY <1>7
<1>14. CASE FriendsStay(c, a, b, at, o)
  <2>1. torn' = t /\ (UNCHANGED told \/ (Knows(c, a, b) /\ TellIfOnline(c, a, at)))
    BY <1>11, <1>14 DEF FriendsStay, old
  <2>2. \A d, e \in Avatar : On(c, d) => (Knows(cache', d, e) <=> Knows(c, d, e))
    BY <1>6, <1>14 DEF FriendsStay, old
  <2> HIDE DEF On, Knows, t
  <2> QED  BY <1>1, <1>6, <1>9, <1>10, <2>1, <2>2 DEF ToldRight
<1>15. CASE FriendAdded(c, a, b, at, o)
  <2>1. \A d \in Avatar : Knows(cache', a, d) <=> d = b \/ Knows(c, a, d)
    <3>1. o.friends = [old.friends EXCEPT ![<<b, 1>>] = old.friends[<<b, 1>>] + 1]
      BY <1>8, <1>15 DEF FriendAdded, old
    <3>2. old.friends[<<b, 1>>] + 1 > 0
      BY <1>12, <1>13
    <3>3. o.friends[<<b, 1>>] > 0 /\ \A d \in Avatar : d # b => o.friends[<<d, 1>>] = old.friends[<<d, 1>>]
      BY <1>12, <1>13, <3>1, <3>2
    <3> HIDE DEF Knows
    <3> QED  BY <1>6, <3>3
  <2>2. \/ torn' = t /\ TellIfOnline(c, a, at)
        \/ torn' = t \cup {<<a, b>>} /\ UNCHANGED told
    BY <1>1, <1>15 DEF FriendAdded, PersistFriend
  <2> HIDE DEF On, Knows, t
  <2> QED  BY <1>1, <1>6, <1>9, <1>10, <2>1, <2>2 DEF ToldRight
<1>16. CASE FriendDropped(c, a, b, o)
  <2>1. PICK p \in WithoutFriend(old, b) :
           o.friends = p.friends /\ t \subseteq torn' /\ IsFriend(old, b)
    BY <1>16 DEF FriendDropped, old
  <2>2. PICK x \in FriendRefs(old, b) :
           \/ old.friends[x] = 1 /\ p.friends = [old.friends EXCEPT ![x] = 0]
           \/ /\ old.friends[x] > 1
              /\ \A y \in Contact : \/ y = x
                                    \/ p.friends[y] = old.friends[y]
                                    \/ p.friends[y] = old.friends[y] + 1
    BY <1>2, <2>1, Erased
  <2>3. \A y \in Contact : p.friends[y] > 0 => old.friends[y] > 0
    BY <1>2, <2>1, Erased
  <2>4. x = <<b, 1>>
    BY <1>1, <1>2, <1>4, OneContact DEF Loaded
  <2>5. \A d \in Avatar : Knows(cache', a, d) => Knows(c, a, d)
    BY <1>6, <1>12, <2>1, <2>3
  <2>6. ASSUME NEW d \in Avatar, d # b, Knows(c, a, d) PROVE Knows(cache', a, d)
    <3>1. <<d, 1>> # x /\ <<d, 1>> \in Contact
      BY <1>12, <2>4, <2>6
    <3>2. old.friends[<<d, 1>>] \in Nat /\ old.friends[<<d, 1>>] > 0
      BY <1>6, <1>13, <2>6, <3>1
    <3>3. \/ p.friends[<<d, 1>>] = old.friends[<<d, 1>>]
          \/ p.friends[<<d, 1>>] = old.friends[<<d, 1>>] + 1
      BY <1>13, <2>2, <3>1
    <3>4. o.friends[<<d, 1>>] > 0
      BY <2>1, <3>2, <3>3
    <3> QED  BY <1>6, <3>4
  <2>7. ASSUME <<a, b>> \notin torn' PROVE ~Knows(cache', a, b)
    <3>1. old.friends[<<b, 1>>] = Row(friendTable, a, b)
      <4>1. AllRemember(c, t, friendTable)
        BY <1>1, <1>4, LoadedRemembers
      <4> QED  BY <1>1, <2>1, <2>7, <4>1 DEF AllRemember, Remembers, old
    <3>2. ~(old.friends[<<b, 1>>] > 1)
      BY <3>1 DEF Row
    <3>3. p.friends[<<b, 1>>] = 0
      BY <1>12, <1>13, <2>2, <2>4, <3>2
    <3> QED  BY <1>6, <2>1, <3>3
  <2>8. \A d \in Avatar : told'[d] = IF d = a THEN told[a] \ {b} ELSE told[d]
    BY <1>5, <1>16 DEF FriendDropped
  <2> HIDE DEF On, Knows, t
  <2>9. \A d \in Avatar : \A e \in told'[d] : On(cache', d) /\ On(cache', e) /\ Knows(cache', d, e)
    BY <1>6, <1>10, <2>6, <2>8
  <2>10. \A d, e \in Avatar : /\ d \notin unsettled' /\ e \notin unsettled' /\ <<d, e>> \notin torn'
                              /\ On(cache', d) /\ On(cache', e) /\ Knows(cache', d, e)
                              => e \in told'[d]
    BY <1>1, <1>6, <1>10, <2>1, <2>5, <2>7, <2>8
  <2> QED  BY <2>9, <2>10 DEF ToldRight
<1> QED  BY <1>1, <1>14, <1>15, <1>16

\* Nobody is online at the start.
LEMMA InitPresence == Init => Presence
<1> SUFFICES ASSUME Init PROVE Presence
  OBVIOUS
<1>1. \A a \in Avatar : ~On(cache, a)
  BY EmptySeq DEF Init, On
<1> HIDE DEF On
<1> QED  BY <1>1 DEF Init, Presence, WebShowsListed, ToldRight

\* Those who were online when the process died are unsettled.
LEMMA CrashPresence == Base /\ Presence /\ Crash => Presence'
<1> SUFFICES ASSUME Base, Presence, Crash PROVE Presence'
  OBVIOUS
<1>1. \A a \in Avatar : ~On(cache', a)
  BY EmptySeq DEF Crash, On
<1>2. web' \subseteq Avatar /\ \A a \in web' : a \in unsettled'
  BY DEF Presence, WebShowsListed, Crash, Base, TypeOK
<1>3. ToldRight(cache', told', torn', unsettled')
  <2> HIDE DEF On
  <2> QED  BY <1>1 DEF Crash, ToldRight
<1>4. WebShowsListed'
  BY <1>2 DEF WebShowsListed
<1>5. \A a \in Avatar \ unsettled' : On(cache', a) => a \in web'
  BY <1>1
<1> QED  BY <1>3, <1>4, <1>5 DEF Presence, ToldRight, On, Knows, WebShowsListed

\* Every step keeps what game servers and website were told in agreement with who is
\* online, but for the unsettled.
LEMMA PresenceInductive == Base /\ Base' /\ Memory /\ Presence /\ [Next]_vars => Presence'
<1> SUFFICES ASSUME Base, Base', Memory, Presence, [Next]_vars PROVE Presence'
  OBVIOUS
<1>1. CASE UNCHANGED <<cache, onlineAvatars, friendTable, web, told, torn, unsettled>>
  BY <1>1 DEF Presence, Unaliased, WebShowsListed, Listed, ToldRight, On, Knows
<1>2. CASE Crash
  BY <1>2, CrashPresence
<1>3. CASE Next /\ ~Crash
  <2>1. \/ \E c, a, k : a \in Avatar /\ LoginStep(c, a, k)
        \/ \E c, a : a \in Avatar /\ LogoutStep(c, a)
        \/ \E c : LookupStep(c)
        \/ \E c, a, b, at, o : a \in Avatar /\ b \in Avatar /\ ListsStep(c, a, b, at, o)
        \/ UNCHANGED <<cache, onlineAvatars, friendTable, web, told, torn, unsettled>>
    BY <1>3, StepShape DEF Base
  <2> QED  BY <1>1, <2>1, LoginPresence, LogoutPresence, LookupPresence, ListsPresence
<1> QED  BY <1>1, <1>2, <1>3 DEF vars

\* What was to be shown of presence follows.
LEMMA PresenceMeans == Base /\ Presence => PresenceCoherent /\ WebFollowsPresence
<1> SUFFICES ASSUME Base, Presence, Unaliased PROVE PresenceCoherent /\ WebFollowsPresence
  BY DEF PresenceCoherent, WebFollowsPresence
<1>1. Single(cache) /\ ListSound(cache, onlineAvatars) /\ Sane(cache, stored)
  BY DEF Base, Unaliased, Single
<1>2. \A a \in Avatar : Listed(onlineAvatars, a) <=> On(cache, a)
  BY <1>1, PresenceOf
<1>3. ASSUME NEW a \in Avatar \ unsettled, NEW b \in Avatar \ unsettled,
             NEW i \in DOMAIN onlineAvatars, onlineAvatars[i][1] = a,
             IsFriend(At(cache, onlineAvatars[i]), b), <<a, b>> \notin torn
      PROVE  b \in told[a] <=> Listed(onlineAvatars, b)
  <2>1. a \in Watchers(cache, onlineAvatars, b)
    BY <1>3 DEF Watchers
  <2>2. On(cache, a) /\ Knows(cache, a, b)
    BY <1>1, <2>1, PresenceOf
  <2>3. On(cache, b) => b \in told[a]
    BY <1>3, <2>2 DEF Presence, ToldRight
  <2>4. b \in told[a] => On(cache, b)
    BY DEF Presence, ToldRight
  <2> QED  BY <1>2, <2>3, <2>4
<1>4. ASSUME NEW a \in Avatar \ unsettled PROVE a \in web <=> Listed(onlineAvatars, a)
  BY <1>2 DEF Presence, WebShowsListed
<1> QED  BY <1>3, <1>4 DEF PresenceCoherent, WebFollowsPresence

\* All three parts of the invariant hold always, as each step has the former ones.
LEMMA PresenceAlways == Spec => [](Base /\ Presence)
<1>1. Init => Base /\ Memory /\ Presence
  BY InitBase, InitMemory, InitPresence
<1>2. Base /\ Memory /\ Presence /\ [Next]_vars => (Base /\ Memory /\ Presence)'
  BY BaseInductive, MemoryInductive, PresenceInductive
<1> QED  BY <1>1, <1>2, PTL DEF Spec

\* Until an avatar is cached twice, the server of an online avatar knows which of its
\* friends are online, in whichever order they logged in and out, were befriended,
\* dropped and loaded, but for requests that were answered DATABASE
\* (SendFriendLoginUpdates and SendFriendLogoutUpdates of GatewayClient.cpp, and
\* the handlers of protocol/ that call them or SendFriendLoginUpdate).
THEOREM PresenceIsCoherent == Spec => []PresenceCoherent
BY PresenceAlways, PresenceMeans, PTL

\* Until an avatar is cached twice, the website shows who is online, but for
\* avatars whose last login or logout failed or was cut short by the end of the
\* process (WebsiteIntegrationService.cpp and its callers).
THEOREM WebsiteFollows == Spec => []WebFollowsPresence
BY PresenceAlways, PresenceMeans, PTL
=============================================================================
