\* Two servers start, stop and die while clients register and log in; the
\* second migration has two statements, so that it can break off half-way.
SPECIFICATION FairSpec
CONSTANTS
    red = red
    blue = blue
    ann = ann
    capitals = capitals
    accented = accented
    junk = junk
    secret = secret
    other = other
    NULL = NULL
    Free = Free
    Servers <- MCServers
    AutoMigrate <- MCServers
    LastMigration = 2
    Statements <- MCStatements
    Procs <- MCServers
    home <- MCHome
    RawEmails <- MCRawEmails
    Emails <- MCEmails
    NormalizeEmail <- MCNormalizeEmail
    Collate <- MCCollate
    Passwords <- MCPasswords
    GoodPasswords <- MCPasswords
    BcryptKey <- MCBcryptKey
    MaxUsers = 2
INVARIANTS
    IInv
    SchemaInOrder
    ServesWholeSchema
    AnswersAreTrue
PROPERTIES
    RegisteredOnce
    SignalEnds
