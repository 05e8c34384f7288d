SPECIFICATION Spec
CONSTANTS
    Mails = {m1, m2}
    Names <- AnyName
    Passwords = {p1, p2}
    m1 = m1
    m2 = m2
    p1 = p1
    p2 = p2
    n = n
    t1 = t1
    t2 = t2
    t3 = t3
    Gone = Gone
    BrowserOf <- TwoBrowsers
    Databases <- NewOrTwo
    MaxRequests = 2
CONSTRAINT FewForAddresses
SYMMETRY Symmetry
INVARIANTS OneAccountPerMail SessionIsEarned WriterAgrees
PROPERTIES OnlyANameShadows
