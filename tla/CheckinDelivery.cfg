CONSTANTS
    u1 = u1  u2 = u2
    s1 = s1  s2 = s2  s3 = s3  s4 = s4  s5 = s5
    a1 = a1  a2 = a2  a3 = a3  a4 = a4  a5 = a5  a6 = a6
    k1 = k1  k2 = k2
    t1 = t1  t2 = t2
    NoKey = NoKey  NoTask = NoTask  NoAttempt = NoAttempt
    Users = {u1, u2}
    Submissions = {s1, s2}
    Attempts = {a1, a2, a3, a4}
    Tasks = {t1, t2}
    Keys = {k1, k2}
    Owner <- MCOwner
    KeyOf <- MCKeyOf
    SubmissionOf <- MCSubmissionOf
    Accepts <- MCAccepts
    FirstTask <- MCFirstTask
    Photos <- MCPhotos
    FutureDated <- MCFutureDated
    BoardAtStart = TRUE
    FailStages <- NoStage
    Allowed = {"timeout", "rate"}
SPECIFICATION FairSpec
CHECK_DEADLOCK FALSE
PROPERTY CountedExactlyOnce
PROPERTY OutboxDrains
PROPERTY AwardsNeverShrink
