-------------------------------- MODULE MCHub --------------------------------
(* Hub on a small instance: a user with two connections, one with a single *)
(* connection, and a message from the second to the first.                 *)
EXTENDS Hub, TLC

CONSTANTS ann, bob, a1, a2, b1, m1, nobody

AnnTwice == a1 :> ann @@ a2 :> ann @@ b1 :> bob
FromBob == m1 :> bob
ToAnn == m1 :> ann

Scene(open, coming, going, failures, says, beating) ==
  [open |-> open, coming |-> coming, going |-> going, faults |-> failures,
   says |-> says, beating |-> beating]

\* A user comes back while another watches; a message meets a change of
\* connections; a message meets its receiver's arrival; everybody arrives at
\* once; the same with races; receipts, refusals and heartbeats with failures; the
\* process is stopped while a message is on its way and a connection comes.
HubScenes ==
  { Scene({a1, b1}, {a2}, Conns, {}, {}, {}),
    Scene({a1, b1}, {a2}, {a1}, {}, {<<b1, "message">>}, {}),
    Scene({b1}, {a1}, {a1}, {}, {<<b1, "message">>, <<a1, "receipt">>}, {}),
    Scene({}, {a1, b1}, {b1}, {}, {}, {}),
    Scene({}, {a1, b1}, Conns, {"race"}, {}, {}),
    Scene({a1, a2}, {b1}, Conns, {"race"}, {}, {}),
    Scene({a1, b1}, {}, Conns, {"race", "write", "db"}, {<<b1, "message">>, <<a1, "receipt">>}, {}),
    Scene({a1}, {b1}, Conns, {"db"}, {<<a1, "typing">>, <<b1, "bad">>}, {}),
    Scene({a1, b1}, {}, Conns, {"race", "write", "db"}, {<<b1, "typing">>}, {b1}),
    Scene({a1, b1}, {a2}, {a1}, {"write"}, {<<b1, "message">>}, {}),
    Scene({a1}, {a2}, {}, {"stop"}, {}, {a1}),
    Scene({a1, b1}, {a2}, {}, {"stop"}, {<<b1, "message">>}, {b1}) }

\* A message is sent while its receiver's second connection takes over.
ReconnectScenes == { Scene({a1, b1}, {a2}, {a1}, {}, {<<b1, "message">>}, {}) }
==============================================================================
