\* One lost call of the setup form.
CONSTANTS
    a = a
    b = b
    p = p
    t1 = t1
    t2 = t2
    t3 = t3
    s1 = s1
    s2 = s2
    r1 = r1
    r2 = r2
    k1 = k1
    k2 = k2
    old = old
    new = new
    q1 = q1
    q2 = q2
    Emails = {a, b}
    Passwords = {p}
    Tokens = {t1, t2}
    Sites = {s1, s2}
    Robots = {r1, r2}
    Builds = {k1}
    Pages = {q1}
    Widths = {1, 2}
    Reaches = {1, 2}
    Keys = {old, new}
    SessionTtl = 1
    MaxTime = 1

SPECIFICATION Spec

INVARIANTS
    FirstBuildIsPossible
