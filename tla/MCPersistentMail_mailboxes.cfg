CONSTANTS
    g1 = g1
    g2 = g2
    ann = ann
    bob = bob
    Gateway = {g1}
    Avatar = {ann}
    HasUser = {ann}
    Category = {"mail"}
    Serves <- OneGateway
    MaxMail = 1
SPECIFICATION Spec
INVARIANT MailboxesInSync
