------------------------------ MODULE FirstPci -------------------------------
(***************************************************************************)
(* P05_pci/first_pci_driver.c: a PCI driver without an interface, for the  *)
(* same devices as the driver of P06_pn (PciNet.tla), and with the same    *)
(* driver-data pointer.  What it prints of a device changes nothing.       *)
(***************************************************************************)
EXTENDS PciNet

FpdStep == {"fpd_request_regions", "fpd_ioremap", "fpd_bound"}

fpd_pci_init ==
  /\ Load("fpd", "out", "in")
  /\ UNCHANGED <<pc, held, drvdata, reg_base, iface>>

fpd_pci_exit ==
  /\ Load("fpd", "in", "leaving")
  /\ UNCHANGED <<pc, held, drvdata, reg_base, iface>>

fpd_pci_exit_end ==
  /\ \A d \in Dev : pc[d] \notin FpdStep
  /\ Load("fpd", "leaving", "out")
  /\ UNCHANGED <<pc, held, drvdata, reg_base, iface>>

fpd_probe_enable(d) ==
  /\ module["fpd"] = "in" /\ pc[d] = "unbound"
  /\ Acquire(d, "enabled")
  /\ Goto(d, "fpd_request_regions")
  /\ UNCHANGED <<module, drvdata, reg_base, iface>>

fpd_probe_regions(d) ==
  /\ pc[d] = "fpd_request_regions"
  /\ \/ Acquire(d, "regions") /\ Goto(d, "fpd_ioremap")
     \/ Release(d, {"enabled"}) /\ Goto(d, "unbound")
  /\ UNCHANGED <<module, drvdata, reg_base, iface>>

fpd_probe_map(d) ==
  /\ pc[d] = "fpd_ioremap"
  /\ \/ /\ Acquire(d, "mapped") /\ Goto(d, "fpd_bound")
        /\ drvdata' = [ drvdata EXCEPT ![d] = "reg_base" ]
     \/ /\ Release(d, {"regions", "enabled"}) /\ Goto(d, "unbound")
        /\ UNCHANGED drvdata
  /\ UNCHANGED <<module, reg_base, iface>>

\* Mutant: the pointer is cleared before it is read, and NULL is unmapped.
fpd_removeClearsFirst(d) ==
  /\ pc[d] = "fpd_bound"
  /\ drvdata' = [ drvdata EXCEPT ![d] = "NULL" ]
  /\ Release(d, {"regions", "enabled"})
  /\ Goto(d, "unbound")
  /\ UNCHANGED <<module, reg_base, iface>>

\* iounmap of any other address would leave the registers mapped.
fpd_remove(d) ==
  /\ pc[d] = "fpd_bound"
  /\ drvdata' = [ drvdata EXCEPT ![d] = "NULL" ]
  /\ Release(d, {"regions", "enabled"} \cup
                (IF drvdata[d] = "reg_base" THEN {"mapped"} ELSE {}))
  /\ Goto(d, "unbound")
  /\ UNCHANGED <<module, reg_base, iface>>

FpdProbe(d) == fpd_probe_regions(d) \/ fpd_probe_map(d)
=============================================================================
