CONSTANTS
    g1 = g1
    g2 = g2
    ann = ann
    bob = bob
    Gateway = {g1, g2}
    Avatar = {ann, bob}
    HasUser = {ann}
    Category = {"mail", "news"}
    Serves <- OneGatewayEach
    MaxMail = 2
SPECIFICATION Spec
INVARIANTS AnsweredIsCopied CopiesSound
PROPERTIES OwnerFiles ReadingKeepsFiled
