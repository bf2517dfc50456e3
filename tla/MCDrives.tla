------------------------------ MODULE MCDrives ------------------------------
\* Three volumes: USB, USB 1 and a disk.
EXTENDS Drives

CONSTANTS usb, usb1, disk

MCPrefixes == {<<usb, usb1>>}

\* Bound of the model: little else happens while there is anything of USB 1.
FewWithUsb1 ==
    usb1 \in mounted \cup found \cup {devices[id] : id \in Ids}
        => changes + hellos + refusals <= 3
=============================================================================
