------------------------------ MODULE MCLaunch ------------------------------
(* Instances of Launch.  Sessions 1 and 2 are Alice's and Bob's behind one *)
(* address, 3 is another of Alice's, elsewhere.                            *)
EXTENDS Launch, TLC

CONSTANTS alice, bob, nat, home, primary, alt, c1, c2

Owners == 1 :> alice @@ 2 :> bob @@ 3 :> alice
Addresses == 1 :> nat @@ 2 :> nat @@ 3 :> home
Nobody == 0

Base == [conns |-> {c1}, sessions |-> {1, 2}, stamps |-> {FALSE}, worlds |-> {primary},
         clock |-> 1, events |-> {}]

(* Three sessions launched one after the other.                            *)
Ranking == [Base EXCEPT !.sessions = {1, 2, 3}, !.clock = 2]
Fetching == [Base EXCEPT !.clock = 2, !.events = {"fetch"}]
(* Long enough for claims and sessions to expire.                          *)
Leaving == [Base EXCEPT !.clock = 3, !.events = {"sign out"}]
(* Two at once behind one address, stamped while POL remembers them.       *)
Racing == [Base EXCEPT !.conns = {c1, c2}, !.stamps = {TRUE}, !.events = {"pol restart"}]
(* Accounts in two worlds, with everything that fails around them.         *)
Accounts == [Base EXCEPT !.worlds = {primary, alt}, !.sessions = {1},
                         !.events = {"probe", "lsb", "disk", "reset", "restart"}]
(* Two at once whose accounts a reset takes away.                          *)
Healing == [Base EXCEPT !.conns = {c1, c2}, !.events = {"reset"}]
(* A ckey that comes back, with data sessions and upstreams that fail.     *)
Reused == [Base EXCEPT !.events = {"probe", "view"}]
Dataless == [Base EXCEPT !.events = {"view", "data"}]

AllScenes == {Ranking, Fetching, Leaving, Racing, Accounts, Healing, Reused, Dataless}
RelaunchScenes == {[Base EXCEPT !.clock = 2]}
=============================================================================
