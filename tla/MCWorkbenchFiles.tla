--------------------------- MODULE MCWorkbenchFiles ---------------------------
(* WorkbenchFiles on small instances.                                        *)
EXTENDS FilesProperties, TLC

CONSTANTS b1, b2

TwoBrowsers == {b1, b2}
OneBrowser  == {b1}

\* a browser that reads, saves and listens, or two without a feed
Scenes ==
  {[link |-> (b1 :> "down" @@ b2 :> "never"), calls |-> (b1 :> 2 @@ b2 :> 0),
    disk |-> 2],
   [link |-> (b1 :> "never" @@ b2 :> "never"), calls |-> (b1 :> 2 @@ b2 :> 1),
    disk |-> 1]}

\* a browser whose feed is up and that reads, then saves
LiveScene == {[link |-> (b1 :> "up"), calls |-> (b1 :> 2), disk |-> 1]}
==============================================================================
