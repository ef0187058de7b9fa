-------------------------------- MODULE Napi --------------------------------
(***************************************************************************)
(* The kernel's NAPI scheduler, as far as the drivers of this repository   *)
(* depend on it.  It is not part of the repository: the drivers call it    *)
(* through netif_napi_add, napi_enable, napi_disable, napi_schedule and    *)
(* napi_complete, and the kernel calls their poll functions.               *)
(*                                                                         *)
(* An instance is a record of                                              *)
(*   state      "off"     not enabled: the scheduling bit is held by       *)
(*                        netif_napi_add or by a finished napi_disable     *)
(*              "idle"    enabled, nothing to poll                         *)
(*              "queued"  on a poll list, waiting for the softirq          *)
(*              "polling" the driver's poll function is running            *)
(*   missed     a schedule request arrived while the instance was already  *)
(*              scheduled; all such requests collapse into this one flag   *)
(*   disabling  napi_disable is waiting for the instance to become idle    *)
(***************************************************************************)

Instance == [ state : {"off", "idle", "queued", "polling"},
              missed : BOOLEAN, disabling : BOOLEAN ]

\* netif_napi_add: a fresh instance is disabled.
netif_napi_add == [ state |-> "off", missed |-> FALSE, disabling |-> FALSE ]

\* napi_schedule: refused while napi_disable waits; remembered, but not
\* queued, when the instance is already scheduled or is disabled.
napi_schedule(n) ==
  IF n.disabling THEN n
  ELSE IF n.state = "idle" THEN [ n EXCEPT !.state = "queued" ]
  ELSE [ n EXCEPT !.missed = TRUE ]

\* The softirq calls the poll function of an instance it takes off its list.
napi_start_poll(n) == [ n EXCEPT !.state = "polling" ]

\* napi_complete: a request missed meanwhile queues the instance once more.
napi_complete(n) ==
  [ n EXCEPT !.state = IF n.missed THEN "queued" ELSE "idle",
             !.missed = FALSE ]

\* The poll function returned without napi_complete, its budget used up: the
\* softirq puts the instance back on the list, or completes it itself when
\* napi_disable waits.
napi_repoll(n) ==
  IF n.disabling THEN napi_complete(n) ELSE [ n EXCEPT !.state = "queued" ]

napi_enable(n) == [ n EXCEPT !.state = "idle" ]

\* napi_disable announces itself, and then sleeps until it gets the
\* scheduling bit, that is until the instance is idle.
napi_disable_begin(n) == [ n EXCEPT !.disabling = TRUE ]
napi_disabled(n)      == n.disabling /\ n.state = "idle"
napi_disable_end(n)   == [ n EXCEPT !.state = "off", !.disabling = FALSE ]
=============================================================================
