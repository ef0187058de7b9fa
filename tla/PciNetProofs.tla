---------------------------- MODULE PciNetProofs ----------------------------
(* Theorems about PciDrivers.tla, for any set of devices.                  *)
EXTENDS PciDrivers, TLAPS

\* What is held at each point of the probes and removals of the two drivers.
HeldAt == [ unbound             |-> {},
            pci_request_regions |-> {"enabled"},
            ioremap             |-> {"enabled", "regions"},
            nd_init             |-> {"enabled", "regions", "mapped"},
            register_netdev     |-> {"enabled", "regions", "mapped", "netdev"},
            pci_set_drvdata     |-> Resource,
            bound               |-> Resource,
            unregister_netdev   |-> Resource,
            iounmap             |-> {"enabled", "regions", "mapped"},
            fpd_request_regions |-> {"enabled"},
            fpd_ioremap         |-> {"enabled", "regions"},
            fpd_bound           |-> {"enabled", "regions", "mapped"} ]

\* The invariant of one device.
DeviceInv(d) ==
  /\ held[d] = HeldAt[pc[d]]
  /\ pc[d] \in {"nd_init", "register_netdev", "pci_set_drvdata",
                "unregister_netdev", "iounmap", "fpd_bound"} => drvdata[d] = "reg_base"
  /\ pc[d] = "bound" => drvdata[d] = "pvt"
  /\ pc[d] \in {"register_netdev", "pci_set_drvdata", "bound"} => reg_base[d] = "reg_base"
  /\ iface[d] = "up" => pc[d] \in {"pci_set_drvdata", "bound", "unregister_netdev"}

PciInv == TypeOK /\ \A d \in Dev : DeviceInv(d)

LEMMA PciInvInit == Init => PciInv
BY DEF Init, PciInv, TypeOK, DeviceInv, HeldAt, Pointer, PnStep, FpdStep

\* A step of one device keeps the types and its own invariant, and changes
\* nothing of any other device.
StepOf(d) ==
  \/ pd_probe_enable(d) \/ Probe(d) \/ Remove(d) \/ nd_open(d) \/ nd_close(d)
  \/ fpd_probe_enable(d) \/ FpdProbe(d) \/ fpd_remove(d)

LEMMA StepKeeps ==
  ASSUME PciInv, NEW d \in Dev, StepOf(d)
  PROVE  TypeOK' /\ DeviceInv(d)'
<1> USE DEF PciInv, TypeOK, DeviceInv, HeldAt, Pointer, Resource,
            Acquire, Release, Goto, PnStep, FpdStep
<1>1. CASE pd_probe_enable(d)
  BY <1>1 DEF pd_probe_enable
<1>2. CASE pd_probe_regions(d)
  <2>1. pc[d] = "pci_request_regions" /\ UNCHANGED <<module, drvdata, reg_base, iface>>
    BY <1>2 DEF pd_probe_regions
  <2>2. CASE Acquire(d, "regions") /\ Goto(d, "ioremap")
    BY <2>1, <2>2
  <2>3. CASE Release(d, {"enabled"}) /\ Goto(d, "unbound")
    BY <2>1, <2>3 DEF ProbeHas
  <2>4. QED
    BY <1>2, <2>2, <2>3 DEF pd_probe_regions
<1>3. CASE pd_probe_map(d)
  <2>1. pc[d] = "ioremap" /\ UNCHANGED <<module, reg_base, iface>>
    BY <1>3 DEF pd_probe_map
  <2>2. CASE /\ Acquire(d, "mapped") /\ Goto(d, "nd_init")
             /\ drvdata' = [ drvdata EXCEPT ![d] = "reg_base" ]
    BY <2>1, <2>2
  <2>3. CASE /\ Release(d, {"regions", "enabled"}) /\ Goto(d, "unbound")
             /\ UNCHANGED drvdata
    BY <2>1, <2>3 DEF ProbeHas
  <2>4. QED
    BY <1>3, <2>2, <2>3 DEF pd_probe_map
<1>4. CASE nd_init_alloc(d)
  <2>1. pc[d] = "nd_init" /\ UNCHANGED <<module, drvdata, iface>>
    BY <1>4 DEF nd_init_alloc
  <2>2. CASE /\ Acquire(d, "netdev") /\ Goto(d, "register_netdev")
             /\ reg_base' = [ reg_base EXCEPT ![d] = drvdata[d] ]
    BY <2>1, <2>2
  <2>3. CASE /\ Release(d, ProbeHas) /\ Goto(d, "unbound")
             /\ UNCHANGED reg_base
    BY <2>1, <2>3 DEF ProbeHas
  <2>4. QED
    BY <1>4, <2>2, <2>3 DEF nd_init_alloc
<1>5. CASE nd_init_register(d)
  <2>1. pc[d] = "register_netdev" /\ UNCHANGED <<module, drvdata, reg_base, iface>>
    BY <1>5 DEF nd_init_register
  <2>2. CASE Acquire(d, "registered") /\ Goto(d, "pci_set_drvdata")
    BY <2>1, <2>2
  <2>3. CASE Release(d, ProbeHas \cup {"netdev"}) /\ Goto(d, "unbound")
    BY <2>1, <2>3 DEF ProbeHas
  <2>4. QED
    BY <1>5, <2>2, <2>3 DEF nd_init_register
<1>6. CASE nd_init_drvdata(d)
  <2>1. /\ pc[d] = "pci_set_drvdata" /\ Goto(d, "bound")
        /\ drvdata' = [ drvdata EXCEPT ![d] = "pvt" ]
        /\ UNCHANGED <<module, held, reg_base, iface>>
    BY <1>6 DEF nd_init_drvdata
  <2>2. TypeOK'
    BY <2>1
  <2>3. /\ pc'[d] = "bound" /\ drvdata'[d] = "pvt" /\ held'[d] = Resource
        /\ reg_base'[d] = "reg_base"
    BY <2>1
  <2>4. DeviceInv(d)'
    BY <2>3
  <2>5. QED
    BY <2>2, <2>4
<1>7. CASE nd_exit_drvdata(d)
  <2>1. /\ pc[d] = "bound" /\ Goto(d, "unregister_netdev")
        /\ drvdata' = [ drvdata EXCEPT ![d] = reg_base[d] ]
        /\ UNCHANGED <<module, held, reg_base, iface>>
    BY <1>7 DEF nd_exit_drvdata
  <2>2. TypeOK'
    BY <2>1
  <2>3. /\ pc'[d] = "unregister_netdev" /\ drvdata'[d] = "reg_base"
        /\ held'[d] = Resource
    BY <2>1
  <2>4. DeviceInv(d)'
    BY <2>3
  <2>5. QED
    BY <2>2, <2>4
<1>8. CASE nd_exit_unregister(d)
  BY <1>8 DEF nd_exit_unregister
<1>9. CASE pd_remove_rest(d)
  BY <1>9 DEF pd_remove_rest
<1>10. CASE nd_open(d)
  BY <1>10 DEF nd_open
<1>11. CASE nd_close(d)
  BY <1>11 DEF nd_close
<1>12. CASE fpd_probe_enable(d)
  BY <1>12 DEF fpd_probe_enable
<1>13. CASE fpd_probe_regions(d)
  <2>1. pc[d] = "fpd_request_regions" /\ UNCHANGED <<module, drvdata, reg_base, iface>>
    BY <1>13 DEF fpd_probe_regions
  <2>2. CASE Acquire(d, "regions") /\ Goto(d, "fpd_ioremap")
    BY <2>1, <2>2
  <2>3. CASE Release(d, {"enabled"}) /\ Goto(d, "unbound")
    BY <2>1, <2>3
  <2>4. QED
    BY <1>13, <2>2, <2>3 DEF fpd_probe_regions
<1>14. CASE fpd_probe_map(d)
  <2>1. pc[d] = "fpd_ioremap" /\ UNCHANGED <<module, reg_base, iface>>
    BY <1>14 DEF fpd_probe_map
  <2>2. CASE /\ Acquire(d, "mapped") /\ Goto(d, "fpd_bound")
             /\ drvdata' = [ drvdata EXCEPT ![d] = "reg_base" ]
    BY <2>1, <2>2
  <2>3. CASE /\ Release(d, {"regions", "enabled"}) /\ Goto(d, "unbound")
             /\ UNCHANGED drvdata
    BY <2>1, <2>3
  <2>4. QED
    BY <1>14, <2>2, <2>3 DEF fpd_probe_map
<1>15. CASE fpd_remove(d)
  BY <1>15 DEF fpd_remove
<1>16. QED
  BY <1>1, <1>2, <1>3, <1>4, <1>5, <1>6, <1>7, <1>8, <1>9, <1>10, <1>11, <1>12, <1>13, <1>14, <1>15
    DEF StepOf, Probe, Remove, FpdProbe

LEMMA StepLeaves ==
  ASSUME PciInv, NEW d \in Dev, StepOf(d), NEW e \in Dev, e # d
  PROVE  DeviceInv(e)'
<1>1. /\ pc'[e] = pc[e] /\ held'[e] = held[e] /\ drvdata'[e] = drvdata[e]
      /\ reg_base'[e] = reg_base[e] /\ iface'[e] = iface[e]
  BY DEF PciInv, TypeOK, StepOf, Probe, Remove, Acquire, Release, Goto,
         pd_probe_enable, pd_probe_regions, pd_probe_map, nd_init_alloc,
         nd_init_register, nd_init_drvdata, nd_exit_drvdata,
         nd_exit_unregister, pd_remove_rest, nd_open, nd_close,
         FpdProbe, fpd_probe_enable, fpd_probe_regions, fpd_probe_map, fpd_remove
<1>2. QED
  BY <1>1 DEF PciInv, DeviceInv

LEMMA PciInvStep == PciInv /\ [Next]_vars => PciInv'
<1> SUFFICES ASSUME PciInv, [Next]_vars PROVE PciInv'
  OBVIOUS
<1>1. CASE \/ pd_pci_init \/ pd_pci_exit \/ pd_pci_exit_end
           \/ fpd_pci_init \/ fpd_pci_exit \/ fpd_pci_exit_end
  BY <1>1 DEF pd_pci_init, pd_pci_exit, pd_pci_exit_end, fpd_pci_init, fpd_pci_exit,
     fpd_pci_exit_end, Load, PciInv, TypeOK, DeviceInv
<1>2. ASSUME NEW d \in Dev, StepOf(d) PROVE PciInv'
  BY <1>2, StepKeeps, StepLeaves DEF PciInv
<1>3. CASE UNCHANGED vars
  BY <1>3 DEF vars, PciInv, TypeOK, DeviceInv
<1>4. QED
  BY <1>1, <1>2, <1>3 DEF Next, StepOf

LEMMA PciInvAlways == Spec => []PciInv
BY PciInvInit, PciInvStep, PTL DEF Spec

\* Every way through the probes and removals gives back all it acquired.
THEOREM NothingHeld == Spec => []NothingHeldUnbound
<1>1. PciInv => NothingHeldUnbound
  BY DEF PciInv, DeviceInv, HeldAt, NothingHeldUnbound
<1>2. QED
  BY <1>1, PciInvAlways, PTL

\* Resources are held in the order in which they depend on each other.
THEOREM Nested == Spec => []ResourcesNested
<1>1. PciInv => ResourcesNested
  BY DEF PciInv, TypeOK, DeviceInv, HeldAt, ResourcesNested, Before, Resource, PnStep, FpdStep
<1>2. QED
  BY <1>1, PciInvAlways, PTL

\* An interface that is up has its registers mapped.
THEOREM UpOnDevice == Spec => []UpOnlyOnDevice
<1>1. PciInv => UpOnlyOnDevice
  BY DEF PciInv, TypeOK, DeviceInv, HeldAt, UpOnlyOnDevice, Resource
<1>2. QED
  BY <1>1, PciInvAlways, PTL

\* Every reader of the driver-data pointer finds what it takes it for.
THEOREM PointerFits == Spec => []DrvdataFits
<1>1. PciInv => DrvdataFits
  BY DEF PciInv, DeviceInv, DrvdataFits
<1>2. QED
  BY <1>1, PciInvAlways, PTL

\* Every variable of the two drivers stays in its range.
THEOREM PciTyped == Spec => []TypeOK
<1>1. PciInv => TypeOK
  BY DEF PciInv
<1>2. QED
  BY <1>1, PciInvAlways, PTL
=============================================================================
