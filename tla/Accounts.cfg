CONSTANTS
    r1 = r1  r2 = r2
    e1 = e1  e2 = e2
    n1 = n1  n2 = n2
    s1 = s1  s2 = s2
    t1 = t1  t2 = t2
    p1 = p1  p2 = p2
    None = None
    Emails = {e1, e2}
    Names = {n1, n2}
    Subs = {s1, s2}
    Tokens = {t1, t2}
    Passwords = {p1, p2}
    Requests = {r1, r2}
    MaxCredits = 1
SPECIFICATION Spec
INVARIANT TypeOK
INVARIANT LastLinkWorks
CONSTRAINT Bounded
SYMMETRY Alike
INVARIANT SignInsHold
INVARIANT ProfilesAsTold
