--------------------------- MODULE MCCloudTunnel ---------------------------
(* CloudTunnel on small instances.                                          *)
EXTENDS TunnelProperties

CONSTANTS t1, w1, r1, deletion, signOut, loss, stall, busy

OneTerminal  == {t1}
OneWatch     == {w1}
OneRequest   == {r1}
EachAlone    == {{t1, loss, stall}, {t1, signOut, stall, busy},
                 {w1, loss}, {w1, signOut}, {r1, deletion, loss}}
TheWatch     == {{w1, loss}}
TheTerminal  == {{t1, loss, stall}}
==============================================================================
