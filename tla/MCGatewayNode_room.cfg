CONSTANTS
    s1 = s1
    s2 = s2
    ann = ann
    bob = bob
    cat = cat
    c1 = c1
    c2 = c2
    c3 = c3
    None = None
    Server = {s1, s2}
    Avatar = {ann, bob, cat}
    AddressOf <- Homes
    Creator = ann
    Client = {c1, c2, c3}
    MaxUnderWay = 3
SPECIFICATION Spec
INVARIANTS ViewsSound
SYMMETRY Symmetry
