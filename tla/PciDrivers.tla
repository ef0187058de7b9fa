----------------------------- MODULE PciDrivers ------------------------------
(***************************************************************************)
(* The two PCI drivers of the repository on the same devices.  The kernel  *)
(* offers a device that is present and unbound to either driver, when the  *)
(* device appears or when the driver is loaded, and binds it to one at a   *)
(* time.                                                                   *)
(*                                                                         *)
(* The actors are one process per device inside a probe or a removal, the  *)
(* processes that unload the drivers, and the users who bring the          *)
(* interfaces of P06_pn up and down.                                       *)
(***************************************************************************)
EXTENDS FirstPci

Init ==
  /\ module = [ drv \in {"pn", "fpd"} |-> "out" ]
  /\ pc = [ d \in Dev |-> "unbound" ]
  /\ held = [ d \in Dev |-> {} ]
  /\ drvdata = [ d \in Dev |-> "NULL" ] /\ reg_base = [ d \in Dev |-> "NULL" ]
  /\ iface = [ d \in Dev |-> "down" ]

Next ==
  \/ pd_pci_init \/ pd_pci_exit \/ pd_pci_exit_end
  \/ fpd_pci_init \/ fpd_pci_exit \/ fpd_pci_exit_end
  \/ \E d \in Dev : \/ pd_probe_enable(d) \/ Probe(d) \/ Remove(d)
                    \/ nd_open(d) \/ nd_close(d)
                    \/ fpd_probe_enable(d) \/ FpdProbe(d) \/ fpd_remove(d)

Spec == Init /\ [][Next]_vars

\* A probe or removal that has begun goes on, and so does the unloading of a
\* driver, which removes the devices that are still bound to it.
Fairness ==
  /\ \A d \in Dev : WF_vars(Probe(d) \/ FpdProbe(d))
  /\ \A d \in Dev : WF_vars((pc[d] # "bound" \/ module["pn"] = "leaving") /\ Remove(d))
  /\ \A d \in Dev : WF_vars(module["fpd"] = "leaving" /\ fpd_remove(d))
  /\ WF_vars(pd_pci_exit_end) /\ WF_vars(fpd_pci_exit_end)

FairSpec == Spec /\ Fairness
-----------------------------------------------------------------------------
(* Properties. *)

\* Every variable stays in its range.
TypeOK ==
  /\ module \in [ {"pn", "fpd"} -> {"out", "in", "leaving"} ]
  /\ pc \in [ Dev -> {"unbound"} \cup PnStep \cup FpdStep ]
  /\ held \in [ Dev -> SUBSET Resource ]
  /\ drvdata \in [ Dev -> Pointer ] /\ reg_base \in [ Dev -> Pointer ]
  /\ iface \in [ Dev -> {"down", "up"} ]

\* Whichever step of pd_probe or fpd_probe fails, and after pd_remove or
\* fpd_remove, everything that was acquired for the device has been given
\* back: the other driver can have it.
NothingHeldUnbound == \A d \in Dev : pc[d] = "unbound" => held[d] = {}

\* A resource is held only while the ones it depends on are: the registers
\* stay mapped and the device enabled as long as there is an interface.
ResourcesNested == \A d \in Dev : \A r \in held[d] : Before[r] \subseteq held[d]

\* An interface that is up is registered with its registers mapped, although
\* users bring it up and down while pd_probe and pd_remove are under way.
UpOnlyOnDevice == \A d \in Dev : iface[d] = "up" => {"mapped", "registered"} \subseteq held[d]

\* Whoever reads the shared pointer finds what it takes it for: nd_init the
\* registers, nd_exit the private area, pd_remove the registers again, and
\* fpd_remove the registers that fpd_probe left, never what P06_pn left.
DrvdataFits ==
  \A d \in Dev :
    /\ pc[d] \in {"nd_init", "iounmap", "fpd_bound"} => drvdata[d] = "reg_base"
    /\ pc[d] = "bound" => drvdata[d] = "pvt"

\* Under FairSpec: unloading either driver ends, although the other one keeps
\* taking devices.
ExitReturns ==
  /\ module["pn"] = "leaving" ~> module["pn"] = "out"
  /\ module["fpd"] = "leaving" ~> module["fpd"] = "out"
=============================================================================
