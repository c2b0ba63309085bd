SPECIFICATION SSpec
CONSTANTS
    Servers = {s1}
    MulticastRepeats = 4
    UnicastRepeats = 2
    Ids = {m1, m2, m3, m4}
    MaxKnown = 3
    MaxNew = 6
SYMMETRY AnyIds
INVARIANTS NoDanglingHandler RunningListens RepeatsAreFarApart AnswersInFull
PROPERTIES ByeIsComplete
