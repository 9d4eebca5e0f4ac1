\* Every Option combination of InviteCreate around the tests' values, written
\* by serde and in every gateway form.
CONSTANTS
    None = None
    user1 = user1
    stream = stream
    InviteValues <- MCInviteValues
    IdValues <- MCIdValues
SPECIFICATION Spec
INVARIANT DecodeInverts
