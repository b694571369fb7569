SPECIFICATION Spec
CONSTANTS
    u1 = u1
    u2 = u2
    e1 = e1
    e2 = e2
    e3 = e3
    s1 = s1
    r1 = r1
    r2 = r2
    NoEmail = NoEmail
    NoUser = NoUser
    MaxAsks = 1
    Users <- TwoUsers
    Emails <- TwoEmails
    Subjects <- NoSubjects
    Requests <- OneRequest
SYMMETRY Symmetry
CHECK_DEADLOCK FALSE
PROPERTY TakenClearsRequest
