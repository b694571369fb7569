SPECIFICATION Spec
CONSTANTS
    u1 = u1
    u2 = u2
    e1 = e1
    e2 = e2
    e3 = e3
    s1 = s1
    r1 = r1
    r2 = r2
    NoEmail = NoEmail
    NoUser = NoUser
    MaxAsks = 3
    Users <- TwoUsers
    Emails <- ThreeEmails
    Subjects <- OneSubject
    Requests <- TwoRequests
SYMMETRY Symmetry
CONSTRAINT Scope
CHECK_DEADLOCK FALSE
INVARIANTS TypeOK TicketsAreCurrent ConfirmedMeansProven
PROPERTIES BothInboxesAgreed NoUnprovenLink
