SPECIFICATION Spec
CONSTANTS
    alice = alice
    bruno = bruno
    bag = bag
    pouch = pouch
    sack = sack
    sword = sword
    None = None
    Ground = Ground
    Player <- Players
    Item <- Objects
    Junk = {pouch}
    Bag = {bag, sack, pouch}
    Wearable = {pouch, sword}
    Slots = 1
    MaxObjSave = 3
SYMMETRY Same
CONSTRAINTS
    OneOfEach
    FewListed
INVARIANTS
    TypeOK
    RestoredInPlace
    RecordsSound
