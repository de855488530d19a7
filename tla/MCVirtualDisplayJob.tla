------------------------ MODULE MCVirtualDisplayJob ------------------------
(* Two launches: of the owner's device and of a guest's.                   *)
EXTENDS VirtualDisplayJob

CONSTANTS l1, l2
OneIsAGuest == {{l2}}
=============================================================================
