CONSTANTS
    f1 = f1
    f2 = f2
    f3 = f3
    alice = alice
    right = right
    wrong = wrong
    default = default
    g1 = g1
    g2 = g2
    Nil = Nil
    Fd = {f1, f2, f3}
    Name = {alice}
    Password = {right, wrong, default}
    NameOf <- OneUser
    PasswordOf <- TwoWords
    Default = default
    NSlave = 2
    MaxSession = 3
    Login = {g1}
    MaxFault = 1
SPECIFICATION Spec
INVARIANTS
    SessionOwner
    AccountListed
CHECK_DEADLOCK FALSE
