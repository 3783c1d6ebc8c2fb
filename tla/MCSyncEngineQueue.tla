------------------------- MODULE MCSyncEngineQueue -------------------------
(***************************************************************************)
(* Instances of SyncEngineQueue: data messages m1, m2, ..., changes n1, n2 *)
(* (LOCAL_DATA_CHANGED) and a feedback message f of two devices.           *)
(***************************************************************************)
EXTENDS SyncEngineQueue, TLC

CONSTANTS m1, m2, m3, n1, n2, f, c1, c2

DeviceOf == (m1 :> "A") @@ (m2 :> "B") @@ (m3 :> "A") @@ (n1 :> "A")
                @@ (n2 :> "A") @@ (f :> "B")
SizeOf == (m1 :> 2) @@ (m2 :> 1) @@ (m3 :> 1) @@ (n1 :> 1) @@ (n2 :> 1)
              @@ (f :> 0)
MCDevice == [m \in Messages |-> DeviceOf[m]]
MCSize == [m \in Messages |-> SizeOf[m]]
=============================================================================
