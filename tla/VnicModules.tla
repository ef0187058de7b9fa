----------------------------- MODULE VnicModules -----------------------------
(***************************************************************************)
(* Loading and unloading the two modules of P04_vnic, nic.ko and pnd.ko,   *)
(* around everything they do while loaded (Pnd.tla).  pnd.ko uses symbols  *)
(* of nic.ko: the kernel loads it only when nic_init has returned, and     *)
(* unloads nic.ko only when pnd.ko is out.  A failing allocation at the    *)
(* start of nic_init or pnd_init changes nothing and is not a step.        *)
(*                                                                         *)
(* register_netdev and unregister_netdev take the RTNL lock; the second    *)
(* closes an interface that is up, and returns when its transmits and      *)
(* polls have left the module's code (synchronize_net).                    *)
(***************************************************************************)
EXTENDS PndProps

VARIABLES
  nicKo,    \* nic.ko: "out", "live", or the call nic_init / nic_exit makes
            \* next; "spin_lock_init_freed" when register_netdev has failed
  pndKo,    \* pnd.ko: "out", "live" or the call it makes next
  priv,     \* the private area of the card: "none" or "allocated"
  early,    \* the skb of a nic_start_xmit that took pvt->lock before nic_init
            \* initialised it, or NULL
  flushed   \* history: pnd_close has dropped packets of the transmit ring, and
            \* a request for a poll of the card has been under way ever since

modVars   == <<nicKo, pndKo, priv, early>>
vnicVars  == <<vars, modVars, flushed>>

Registered == nicKo \in {"spin_lock_init", "live"}

Rtnl == RtnlFree /\ "unregister_netdev" \notin {nicKo, pndKo}

PollRequested ==
  \/ nicNapi.state \in {"queued", "polling"} \/ nicNapi.missed
  \/ pndXmit = "schedule"

FlushNoted ==
  flushed' = /\ PollRequested'
             /\ \/ flushed
                \/ pndDev = "nic_cleanup_buffers" /\ pndDev' = "down" /\ ~TxEmpty
-----------------------------------------------------------------------------
(* nic_init *)

\* alloc_netdev zeroes the private area, and with it the whole card.
nic_init_alloc ==
  /\ nicKo = "out"
  /\ nicKo' = "register_netdev" /\ priv' = "allocated"
  /\ tx_drv' = 0 /\ tx_nic' = 0 /\ tx_ring_buffer' = [ i \in TxSlots |-> NULL ]
  /\ rx_drv' = 0 /\ rx_nic' = 0 /\ rx_ring_buffer' = [ i \in RxSlots |-> NULL ]
  /\ handler' = FALSE /\ nic_ready' = FALSE /\ nic_intr_enabled' = FALSE
  /\ nicNapi' = netif_napi_add /\ nicStats' = 0
  /\ UNCHANGED <<nicDev, nicSkb, holder, owned, oops, pndVars, pndKo, early>>

\* From here on the interface can be opened and transmit.  When register_netdev
\* fails the private area is freed, and nic_init goes on.
nic_init_register ==
  /\ nicKo = "register_netdev" /\ Rtnl
  /\ \/ nicKo' = "spin_lock_init" /\ UNCHANGED priv
     \/ nicKo' = "spin_lock_init_freed" /\ priv' = "none"
  /\ UNCHANGED <<vars, pndKo, early>>

\* spin_lock_init leaves the lock free, also under a transmit that holds it.
nic_init_lock ==
  /\ \/ nicKo = "spin_lock_init" /\ nicKo' = "live"
     \/ nicKo = "spin_lock_init_freed" /\ nicKo' = "out"
  /\ nic_ready' = FALSE
  /\ UNCHANGED <<card, handler, nic_intr_enabled, pndVars, pndKo, priv, early>>
-----------------------------------------------------------------------------
(* nic_exit *)

\* Mutant: the private area is freed under an interface that is still up.
nic_exit_freeNoUnregister ==
  /\ nicKo = "unregister_netdev"
  /\ nicKo' = "out" /\ priv' = "none"
  /\ UNCHANGED <<vars, pndKo, early>>

nic_exit_unregister ==
  /\ nicKo = "live" /\ pndKo = "out" /\ Rtnl
  /\ early = NULL
  /\ nicKo' = "unregister_netdev"
  /\ NicClose \/ (nicDev = "down" /\ UNCHANGED vars)
  /\ UNCHANGED <<pndKo, priv, early>>

nic_exit_free ==
  /\ nicKo = "unregister_netdev" /\ nicDev = "down"
  /\ nicKo' = "out" /\ priv' = "none"
  /\ UNCHANGED <<vars, pndKo, early>>
-----------------------------------------------------------------------------
(* pnd_init and pnd_exit *)

pnd_init_alloc ==
  /\ nicKo = "live" /\ pndKo = "out"
  /\ pndKo' = "register_netdev"
  /\ pndNapi' = netif_napi_add /\ pndStats' = 0
  /\ UNCHANGED <<nicVars, pndDev, pndXmit, pndPoll, work_done, unmasking,
                 checking, nicKo, priv, early>>

pnd_init_register ==
  /\ pndKo = "register_netdev" /\ Rtnl
  /\ pndKo' \in {"live", "out"}
  /\ UNCHANGED <<vars, nicKo, priv, early>>

pnd_exit_unregister ==
  /\ pndKo = "live" /\ Rtnl
  /\ pndKo' = "unregister_netdev"
  /\ pnd_close_intr \/ (pndDev = "down" /\ UNCHANGED vars)
  /\ UNCHANGED <<nicKo, priv, early>>

\* unregister_netdev returns when no poll is left in the module's code.
pnd_exit_free ==
  /\ pndKo = "unregister_netdev" /\ pndDev = "down"
  /\ unmasking = 0 /\ checking = 0
  /\ pndKo' = "out"
  /\ UNCHANGED <<vars, nicKo, priv, early>>
-----------------------------------------------------------------------------
(* The loaded drivers. *)

\* A transmit between register_netdev and spin_lock_init takes the lock in the
\* zeroed private area, where it is free; the rest of the call comes later.
\* (Where a card compiled with TODO calls the handler meanwhile, it waits for
\* that: two calls inside the lock is what LockProtects is about, and what
\* they do to each other is left out.)
early_xmit_lock(skb) ==
  /\ nicKo = "spin_lock_init" /\ nicDev = "up" /\ early = NULL
  /\ skb \notin owned
  /\ early' = skb
  /\ UNCHANGED <<vars, nicKo, pndKo, priv>>

early_xmit_rest ==
  /\ early # NULL
  /\ NicXmit(early)
  /\ early' = NULL
  /\ UNCHANGED <<nicKo, pndKo, priv>>

\* What a process asks of the registered interfaces.
Admin ==
  /\ Rtnl
  /\ \/ pndKo = "live" /\ (pnd_open_setup \/ pnd_close_intr)
     \/ Registered /\ (NicOpen \/ (early = NULL /\ NicClose))

Transmit ==
  \/ \E skb \in Skb \ {early} : pnd_start_xmit(skb)
  \/ nicKo # "spin_lock_init" /\ early = NULL /\ \E skb \in Skb : NicXmit(skb)

ModuleStep ==
  \/ nic_init_alloc \/ nic_init_register \/ nic_init_lock
  \/ nic_exit_unregister \/ nic_exit_free
  \/ pnd_init_alloc \/ pnd_init_register
  \/ pnd_exit_unregister \/ pnd_exit_free
  \/ \E skb \in Skb : early_xmit_lock(skb)
  \/ early_xmit_rest

LoadedStep ==
  \/ Admin \/ PndOpenRest \/ PndCloseRest \/ NicCloseEnd
  \/ Transmit \/ pnd_start_xmit_schedule
  \/ NicXmitQuiet \/ handler_mask \/ handler_schedule
  \/ PndPoll \/ pnd_poll_unmask \/ pnd_poll_check \/ NicPoll

\* Before the first modprobe.
VnicInit ==
  /\ Init
  /\ nicKo = "out" /\ pndKo = "out" /\ priv = "none" /\ early = NULL
  /\ flushed = FALSE

VnicNext ==
  /\ ~oops
  /\ ModuleStep \/ (LoadedStep /\ UNCHANGED modVars)
  /\ FlushNoted

VnicSpec == VnicInit /\ [][VnicNext]_vnicVars
-----------------------------------------------------------------------------
\* The driver, the card and the two modules stay in their ranges.
VnicTypeOK ==
  /\ TypeOK
  /\ nicKo \in {"out", "register_netdev", "spin_lock_init",
                "spin_lock_init_freed", "live", "unregister_netdev"}
  /\ pndKo \in {"out", "register_netdev", "live", "unregister_netdev"}
  /\ priv \in {"none", "allocated"} /\ early \in Skb \cup {NULL}
  /\ flushed \in BOOLEAN

\* The private area of the card outlives everybody who uses it, and nothing
\* is left in it: when nic_exit frees it, the interface is closed, no poll and
\* no transmit is running, pnd.ko is out, and every skb has been freed or
\* handed on.  The one user left, which the code does not stop, is nic_init
\* itself after a failing register_netdev (nic.c:281, 290).
CardReleased ==
  priv = "none" =>
    /\ nicKo \in {"out", "spin_lock_init_freed"} /\ pndKo = "out"
    /\ nicDev = "down" /\ nicNapi.state = "off"
    /\ holder = "none" /\ early = NULL
    /\ owned = {}

\* When pnd.ko is out nothing executes its code and nothing will call it: the
\* card has no handler, NAPI is off, and no poll is left, not even one
\* between napi_complete and nic_hw_enable_intr, which napi_disable in
\* pnd_close does not wait for.
DriverGone ==
  pndKo = "out" =>
    /\ pndDev = "down" /\ ~handler /\ ~nic_ready
    /\ pndNapi.state = "off" /\ pndPoll = "idle" /\ pndXmit = "idle"
    /\ unmasking = 0 /\ checking = 0
    /\ holder \notin InHandler

\* nic_poll runs without a packet only when pnd_close has flushed the ring
\* since the poll was requested: nic.c:234.
NoEmptyPoll ==
  nicNapi.state = "polling" /\ nicSkb = NULL => flushed

\* The lock protects the buffers and the handler, as nic.c:32 says: nobody
\* else changes them while a call of nic_start_xmit is between its lock and
\* its unlock.
LockProtects ==
  [][ \/ early # NULL /\ early' = early
      \/ holder # "none" /\ holder' = holder
      => UNCHANGED <<txRing, rxRing, handler>> ]_vnicVars
\* Once nic_init is past spin_lock_init that is so: a packet that
\* nic_start_xmit has queued, and the handler it is about to call, stay as
\* they are until it unlocks, although pnd_open, pnd_close and both polls
\* change rings and handler, and modules come and go.
LockProtectsOnceInit ==
  [][ holder # "none" /\ holder' = holder
      => UNCHANGED <<txRing, rxRing, handler>> ]_vnicVars
=============================================================================
