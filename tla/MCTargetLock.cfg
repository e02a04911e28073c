SPECIFICATION Spec
CONSTANTS
    p1 = p1
    p2 = p2
    sda = sda
    byId = byId
    disk = disk
    Disk = {disk}
    Proc = {p1, p2}
    Name = {a, b}
    File = {f, g}
    Node = {sda, byId}
    Loop = loop0
    Backing = f
    LoopName = a
    None = None
    MaxEdits = 1
    DiskOf <- MCDiskOf
SYMMETRY Symmetry
INVARIANTS DataExclusive SceneKept
