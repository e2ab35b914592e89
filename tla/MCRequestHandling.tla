-------------------------- MODULE MCRequestHandling --------------------------
(***************************************************************************)
(* Two instances in one run, of which each behaviour shows one, its part,  *)
(* while the other stays as it begins:                                     *)
(*   requests  connections of up to two requests, some waiting while one   *)
(*             is handled: every type that has a case, the one that has a  *)
(*             handler and no case, one that has neither, and a number     *)
(*             beyond the enumeration;                                     *)
(*   streams   packets cut anywhere, one after another, while messages are *)
(*             sent: messages of every kind of field, some with strings    *)
(*             that are empty, not ASCII, or too long for their length.    *)
(***************************************************************************)
EXTENDS GatewayClient

VARIABLE part

SomeCodes ==
    {code \in 0 .. Len(RequestTypes) - 1 : Dispatched(code)}
    \cup {Code(RequestTypes, "DESTROYAVATAR"), Code(RequestTypes, "FILTERMESSAGE"), 75}

Field(kind, value) == [kind |-> kind, value |-> value]

Names == {<<>>, <<1, 0>>, <<2>>, <<5, 1>>, <<14>>, <<15>>}

LongText == [i \in 1 .. 18 |-> i % 4]

SomeMessages ==
    {<<Field("uint16", 9), Field("uint32", 200), Field("u16string", name), Field("bool", TRUE)>> :
        name \in Names}
    \cup {<<Field("string", text), Field("u16string", <<1>>), Field("uint16", 7)>> :
            text \in {<<>>, <<3, 1>>, LongText}}

streamVars == <<packet, istream, fieldsRead, ostream, sent>>

PartsInit == part \in {"requests", "streams"} /\ Init /\ Stream!Init

PartsNext ==
    /\ \/ part = "requests" /\ Next /\ UNCHANGED streamVars
       \/ part = "streams" /\ Stream!Next /\ UNCHANGED vars
    /\ UNCHANGED part

PartsSpec ==
    /\ PartsInit /\ [][PartsNext]_<<part, vars, streamVars>>
    /\ WF_vars(part = "requests" /\ OnIncoming)
    /\ WF_vars(part = "requests" /\ Perform)
    /\ WF_vars(part = "requests" /\ Send)
=============================================================================
