SPECIFICATION Spec
CONSTANTS
    Outpoint = {o1, o2}
    Coin = {c1, c2}
    Spent = Spent
    Absent = Absent
    Block = {b1, b2}
INVARIANTS
    FreshIsSound
    CleanMatchesBase
PROPERTIES
    ImplementsUtxoSet
