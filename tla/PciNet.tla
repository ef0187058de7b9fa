------------------------------- MODULE PciNet -------------------------------
(***************************************************************************)
(* P06_pn: the PCI driver (pci_driver.c) and the network driver it creates *)
(* for every device it is bound to (network_driver.c).  pd_probe acquires  *)
(* resources one after the other, any of which can be refused; pd_remove   *)
(* gives them back.  Both parts share the one driver-data pointer of the   *)
(* PCI device: it is the address of the mapped registers for pci_driver.c  *)
(* and the private area of the interface for network_driver.c.             *)
(*                                                                         *)
(* This module has the steps of the driver; PciDrivers.tla composes them   *)
(* with those of the other driver for the same devices, FirstPci.tla.  The *)
(* card of this driver is a template whose functions are empty (nic.c): no *)
(* interrupt, hence no poll.                                               *)
(***************************************************************************)
EXTENDS Naturals

CONSTANT Dev   \* the PCI devices of the driver's table that are present

VARIABLES
  module,   \* per driver, "pn" or "fpd": its kernel module is "out", "in" or
            \* "leaving" (in pd_pci_exit or fpd_pci_exit)
  pc,       \* per device: what the probe or removal of its driver does next,
            \* or at rest "unbound", "bound" (to pn) or "fpd_bound"
  held,     \* per device: the resources acquired and not given back
  drvdata,  \* per device: pci_get_drvdata, "NULL", "reg_base" or "pvt"
  reg_base, \* per device: pvt->reg_base, likewise
  iface     \* per device: the network interface, "down" or "up"

vars == <<module, pc, held, drvdata, reg_base, iface>>

\* Where a device is that pci_driver.c is bound to, or is binding to.
PnStep == {"pci_request_regions", "ioremap", "nd_init", "register_netdev",
           "pci_set_drvdata", "bound", "unregister_netdev", "iounmap"}

Pointer  == {"NULL", "reg_base", "pvt"}
Resource == {"enabled", "regions", "mapped", "netdev", "registered"}

\* The resources that are acquired before one.
Before == [ enabled    |-> {},
            regions    |-> {"enabled"},
            mapped     |-> {"enabled", "regions"},
            netdev     |-> {"enabled", "regions", "mapped"},
            registered |-> {"enabled", "regions", "mapped", "netdev"} ]

Load(drv, from, to) ==
  module[drv] = from /\ module' = [ module EXCEPT ![drv] = to ]
Acquire(d, r) == held' = [ held EXCEPT ![d] = @ \cup {r} ]
Release(d, R) == held' = [ held EXCEPT ![d] = @ \ R ]
Goto(d, l)    == pc' = [ pc EXCEPT ![d] = l ]
-----------------------------------------------------------------------------
(* The kernel module. *)

pd_pci_init ==
  /\ Load("pn", "out", "in")
  /\ UNCHANGED <<pc, held, drvdata, reg_base, iface>>

\* pci_unregister_driver removes the devices that are bound, and waits for
\* probes and removals under way.
pd_pci_exit ==
  /\ Load("pn", "in", "leaving")
  /\ UNCHANGED <<pc, held, drvdata, reg_base, iface>>

pd_pci_exit_end ==
  /\ \A d \in Dev : pc[d] \notin PnStep
  /\ Load("pn", "leaving", "out")
  /\ UNCHANGED <<pc, held, drvdata, reg_base, iface>>
-----------------------------------------------------------------------------
(* pd_probe.  Each call either succeeds, or fails and pd_probe gives back  *)
(* what it has.  (A failing pci_enable_device changes nothing.)            *)

pd_probe_enable(d) ==
  /\ module["pn"] = "in" /\ pc[d] = "unbound"
  /\ Acquire(d, "enabled")
  /\ Goto(d, "pci_request_regions")
  /\ UNCHANGED <<module, drvdata, reg_base, iface>>

pd_probe_regions(d) ==
  /\ pc[d] = "pci_request_regions"
  /\ \/ Acquire(d, "regions") /\ Goto(d, "ioremap")
     \/ Release(d, {"enabled"}) /\ Goto(d, "unbound")
  /\ UNCHANGED <<module, drvdata, reg_base, iface>>

pd_probe_map(d) ==
  /\ pc[d] = "ioremap"
  /\ \/ /\ Acquire(d, "mapped") /\ Goto(d, "nd_init")
        /\ drvdata' = [ drvdata EXCEPT ![d] = "reg_base" ]
     \/ /\ Release(d, {"regions", "enabled"}) /\ Goto(d, "unbound")
        /\ UNCHANGED drvdata
  /\ UNCHANGED <<module, reg_base, iface>>

\* What pd_probe gives back when nd_init fails.
ProbeHas == {"mapped", "regions", "enabled"}

\* nd_init: alloc_etherdev, and the private area is filled in.
nd_init_alloc(d) ==
  /\ pc[d] = "nd_init"
  /\ \/ /\ Acquire(d, "netdev") /\ Goto(d, "register_netdev")
        /\ reg_base' = [ reg_base EXCEPT ![d] = drvdata[d] ]
     \/ /\ Release(d, ProbeHas) /\ Goto(d, "unbound")
        /\ UNCHANGED reg_base
  /\ UNCHANGED <<module, drvdata, iface>>

\* From here on the interface can be opened.
nd_init_register(d) ==
  /\ pc[d] = "register_netdev"
  /\ \/ Acquire(d, "registered") /\ Goto(d, "pci_set_drvdata")
     \/ Release(d, ProbeHas \cup {"netdev"}) /\ Goto(d, "unbound")
  /\ UNCHANGED <<module, drvdata, reg_base, iface>>

\* Mutant: the interface is stored, as if dev had no private area.
nd_init_drvdataDev(d) ==
  /\ pc[d] = "pci_set_drvdata"
  /\ drvdata' = [ drvdata EXCEPT ![d] = "netdev" ]
  /\ Goto(d, "bound")
  /\ UNCHANGED <<module, held, reg_base, iface>>

nd_init_drvdata(d) ==
  /\ pc[d] = "pci_set_drvdata"
  /\ drvdata' = [ drvdata EXCEPT ![d] = "pvt" ]
  /\ Goto(d, "bound")
  /\ UNCHANGED <<module, held, reg_base, iface>>
-----------------------------------------------------------------------------
(* pd_remove: the device goes away, or the driver is unloaded.             *)

\* Mutant: nd_exit does not restore the pointer for pd_remove.
nd_exit_drvdataForgotten(d) ==
  /\ pc[d] = "bound"
  /\ Goto(d, "unregister_netdev")
  /\ UNCHANGED <<module, held, drvdata, reg_base, iface>>

nd_exit_drvdata(d) ==
  /\ pc[d] = "bound"
  /\ drvdata' = [ drvdata EXCEPT ![d] = reg_base[d] ]
  /\ Goto(d, "unregister_netdev")
  /\ UNCHANGED <<module, held, reg_base, iface>>

\* Mutant: the interface is freed without being closed and unregistered.
nd_exit_unregisterForgotten(d) ==
  /\ pc[d] = "unregister_netdev"
  /\ Release(d, {"netdev"})
  /\ Goto(d, "iounmap")
  /\ UNCHANGED <<module, drvdata, reg_base, iface>>

\* Mutant: the users must close the interface before it is unregistered.
nd_exit_unregisterWaits(d) ==
  /\ pc[d] = "unregister_netdev" /\ iface[d] = "down"
  /\ Release(d, {"registered", "netdev"})
  /\ Goto(d, "iounmap")
  /\ UNCHANGED <<module, drvdata, reg_base, iface>>

\* unregister_netdev calls nd_close if the interface is up; free_netdev.
nd_exit_unregister(d) ==
  /\ pc[d] = "unregister_netdev"
  /\ iface' = [ iface EXCEPT ![d] = "down" ]
  /\ Release(d, {"registered", "netdev"})
  /\ Goto(d, "iounmap")
  /\ UNCHANGED <<module, drvdata, reg_base>>

\* iounmap of any other address would leave the registers mapped.
pd_remove_rest(d) ==
  /\ pc[d] = "iounmap"
  /\ drvdata' = [ drvdata EXCEPT ![d] = "NULL" ]
  /\ Release(d, {"regions", "enabled"} \cup
                (IF drvdata[d] = "reg_base" THEN {"mapped"} ELSE {}))
  /\ Goto(d, "unbound")
  /\ UNCHANGED <<module, reg_base, iface>>
-----------------------------------------------------------------------------
(* The interface.  With the empty functions of nic.c, opening enables NAPI *)
(* and closing disables it, with no poll to wait for.                      *)

nd_open(d) ==
  /\ "registered" \in held[d] /\ iface[d] = "down"
  /\ iface' = [ iface EXCEPT ![d] = "up" ]
  /\ UNCHANGED <<module, pc, held, drvdata, reg_base>>

nd_close(d) ==
  /\ "registered" \in held[d] /\ iface[d] = "up"
  /\ iface' = [ iface EXCEPT ![d] = "down" ]
  /\ UNCHANGED <<module, pc, held, drvdata, reg_base>>
-----------------------------------------------------------------------------
Probe(d) ==
  \/ pd_probe_regions(d) \/ pd_probe_map(d)
  \/ nd_init_alloc(d) \/ nd_init_register(d) \/ nd_init_drvdata(d)

Remove(d) == nd_exit_drvdata(d) \/ nd_exit_unregister(d) \/ pd_remove_rest(d)
=============================================================================
