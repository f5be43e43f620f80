CONSTANTS
    f1 = f1
    f2 = f2
    f3 = f3
    alice = alice
    right = right
    wrong = wrong
    default = default
    g1 = g1
    g2 = g2
    Nil = Nil
    Fd = {f1, f2}
    Name = {alice}
    Password = {right, wrong, default}
    NameOf <- OneUser
    PasswordOf <- SameWord
    Default = default
    NSlave = 2
    MaxSession = 2
    Login = {g1, g2}
    MaxFault = 1
SPECIFICATION FairSpec
INVARIANTS
    TypeOK
    SessionFound
    TokenOnce
PROPERTIES
    TokensSpec
    ConnectionsClosed
    SessionsExpire
CHECK_DEADLOCK FALSE
