CONSTANTS
    r1 = r1  r2 = r2
    A1 = A1
    T1 = T1
    I1 = I1  I2 = I2
    t1 = t1  t2 = t2  t3 = t3
    u1 = u1  u2 = u2
    cover = cover  b1 = b1  b2 = b2
    Areas = {A1}
    Types = {T1}
    Intervals = {I1, I2}
    Tasks = {t1, t2, t3}
    Images = {u1, u2}
    Slots = {cover, b1, b2}
    Cover = cover
    Requests = {r1, r2}
SPECIFICATION Spec
INVARIANT TypeOK
INVARIANT SweepSound
INVARIANT TasksAsAnswered
CONSTRAINT Bounded
SYMMETRY Alike
INVARIANT ProjectAsSet
INVARIANT ImagesKept
