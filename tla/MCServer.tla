----------------------------- MODULE MCServer ------------------------------
(* An instance of Server for TLC: two servers that migrate a schema of two *)
(* migrations, one request at a time on each, about one account that has   *)
(* two spellings.                                                          *)
EXTENDS Server

CONSTANTS red, blue, ann, capitals, accented, junk, secret, other

MCServers == {red, blue}
MCHome == [p \in MCServers |-> p]
MCStatements == [v \in 1..2 |-> v]

MCRawEmails == {ann, capitals, accented, junk}
MCEmails == {ann, accented}
MCNormalizeEmail ==
    [raw \in MCRawEmails |->
        IF raw = capitals THEN ann ELSE IF raw = junk THEN NULL ELSE raw]
MCCollate == [email \in MCEmails |-> ann]

MCPasswords == {secret, other}
MCBcryptKey == [password \in MCPasswords |-> password]
=============================================================================
