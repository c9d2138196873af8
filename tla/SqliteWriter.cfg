\* Two workers and two calls of create_user beside one sync handler.
SPECIFICATION WriterFairSpec
CONSTANTS
    Workers = {w1, w2}
    Creates = {c1, c2}
    Threads = {t1}
    Nothing = Nothing
INVARIANT WorkersStay
