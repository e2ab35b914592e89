---------------------------- MODULE GatewayClient -----------------------------
(***************************************************************************)
(* A client of a gateway: the requests it handles, which are               *)
(* RequestHandling as it stands, and under them the streams its messages   *)
(* are read from and written to (Stream).  RequestHandling says which      *)
(* fields a request or an answer has, NodeClient how any fields become     *)
(* bytes and fields again: they do not share state.                        *)
(***************************************************************************)
EXTENDS RequestHandling, Integers

CONSTANTS Base, Message, Undefined    \* of NodeClient

VARIABLES packet, istream, fieldsRead, ostream, sent

Stream == INSTANCE NodeClient WITH fields <- fieldsRead

ASSUME GatewayClientAssumption == Stream!NodeClientConstants

-----------------------------------------------------------------------------
\* NodeClient's TypeOK, ReadsWhatIsThere, SentIsRead and OnlyAsciiSurvives: fields
\* that are wholly in a packet are read as they were written, whatever the packets
\* before left the streams in, each packet sent is one message, and the names
\* that are the same when loaded again are those expected.
StreamsSound ==
    Stream!TypeOK /\ Stream!ReadsWhatIsThere /\ Stream!SentIsRead /\ Stream!OnlyAsciiSurvives
=============================================================================
