SPECIFICATION Spec
CONSTANTS
    u1 = u1
    u2 = u2
    admin = admin
    bob = bob
    adminMail = adminMail
    bobMail = bobMail
    User = {u1, u2}
    Username = {admin, bob}
    Email = {adminMail, bobMail}
    AdminName = admin
    AdminEmail = adminMail
    Identity = {s1}
    SocialName <- BobName
    SocialEmail <- BobMail
    Worker = {w1, w2}
    MaxOps = 4
    MaxMishaps = 1
SYMMETRY Symmetry
INVARIANTS
    RefusedIsOvertaken
    AcknowledgedIsStored
    ViewIsTrue
    StaleIsExplained
    LinkedIsLive
    StartedHasAdmin
PROPERTY
    LinkLasts
\* The requests are finitely many.
CHECK_DEADLOCK FALSE
