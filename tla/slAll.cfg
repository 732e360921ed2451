CONSTANTS
    a1 = a1
    a2 = a2
    b = b
    Slots = {1, 2}
    Subs <- MCSubs
    Home <- MCHome
    HotSlots = {1}
    Phones = {{}, {"ui", "lag"}}
SPECIFICATION MCSpec
INVARIANTS PoweredDownCardIsListed QuietIsSynced
PROPERTIES NoPhantomAlteration NoSyncStartsDuringRequest
SYMMETRY Symmetric
