SPECIFICATION FairSpec
CONSTANTS
    t1 = t1
    t2 = t2
    Threads = {t1, t2}
    MaxPresses = 7
INVARIANTS TypeOK MarkerOnPage ConfirmsWhatIsMarked NoPhantomPress
PROPERTIES PressConsumed LampObeys
