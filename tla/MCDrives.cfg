CONSTANTS
    usb = usb
    usb1 = usb1
    disk = disk
    Volumes = {usb, usb1, disk}
    Prefixes <- MCPrefixes
    Home = home
    None = none
    MaxChanges = 3
    MaxHellos = 2
    MaxRefusals = 1
SPECIFICATION Spec
CONSTRAINT FewWithUsb1
INVARIANTS TypeOK ListIsMounted ServerAgrees
CHECK_DEADLOCK FALSE
