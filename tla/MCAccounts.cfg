SPECIFICATION MCSpec
CONSTANTS
    Logins = {l1, l2}
    Admins = {a1, a2}
    Names = {adm, uid}
    Mails = {adm, rob}
    adm = adm
    uid = uid
    rob = rob
    MailOf <- MCMailOf
    Ids = {u1, u2}
    Passwords = {p}
    SeedMail = adm
    NoMail = noMail
    Nobody = nobody
    NoUser = noUser
    MaxAttempts = 2
    Window = 4
    Second = 2
    MaxTime = 5
    MaxInFlight = 2
    MaxFailures = 3
CONSTRAINT OrderlyOnly
SYMMETRY Symmetry
INVARIANTS
    TypeOK
    FailuresBounded
    RetryAfterIsRight
    FewRightPasswordsRefused
    SomeAdminIsLeft
