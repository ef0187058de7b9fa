----------------------------- MODULE NetProofs ------------------------------
(***************************************************************************)
(* Theorems about NetApis.tla, for any number of processes that run        *)
(* net_ops and any interfaces, names, flags and addresses: what one        *)
(* process may do to what another one knows.                               *)
(***************************************************************************)
EXTENDS NetApis, TLAPS

Calls == {"menu", "query", "set_name", "get_flags", "set_flags",
          "set_addr", "set_mask", "get_addr", "get_mask",
          "tx_socket", "rx_socket", "tx_index", "rx_index",
          "sendto", "bind", "recv"}

\* The descriptors a call has open when it makes each of its system calls.
Held(l) == CASE l = "menu" -> 0
             [] l \in {"tx_index", "rx_index"} -> 2
             [] OTHER -> 1

DescriptorsHeld == \A p \in Proc : fd[p] = Held(pc[p])
UniqueNames     == \A i, j \in If : name[i] = name[j] => i = j

NetInv == TypeOK /\ UniqueNames /\ DescriptorsHeld

\* A step of process p.
Step(p) == Choose(p) \/ Call(p)
-----------------------------------------------------------------------------
(* The descriptors and the place of a process in its call. *)

\* Every system call goes on to one of the calls with the descriptors that
\* one needs, whether it succeeds or fails.
LEMMA Moves ==
  ASSUME NetInv, NEW r \in Proc, Step(r)
  PROVE  \E l \in Calls : Goto(r, l) /\ fd' = [ fd EXCEPT ![r] = Held(l) ]
<1> DEFINE Done(l) == Goto(r, l) /\ fd' = [ fd EXCEPT ![r] = Held(l) ]
<1>0. fd[r] = Held(pc[r])
  BY DEF NetInv, DescriptorsHeld
<1>1. CASE Choose(r)
  <2>1. ASSUME NEW l \in Calls \ {"menu", "tx_index", "rx_index"}, Socket(r, l)
        PROVE  Done(l)
    <3>1. fd[r] + 1 = Held(l)
      BY <1>0, <2>1, SMT DEF Socket, Held, Calls
    <3>2. QED
      BY <2>1, <3>1, Zenon DEF Socket
  <2>2. QED
    BY <1>1, <2>1 DEF Choose, query, set_if_name, set_if_state, set_ip_addr, get_ip_addr,
       tx_pkt, rx_pkt, Calls
<1>2. CASE /\ Return(r)
           /\ pc[r] \in Calls \ {"menu", "tx_index", "rx_index"}
  <2>1. fd[r] - 1 = Held("menu")
    BY <1>0, <1>2, SMT DEF Held, Calls
  <2>2. Done("menu")
    BY <1>2, <2>1, Zenon DEF Return
  <2>3. QED
    BY <2>2 DEF Calls
<1>3. ASSUME NEW l \in Calls, Goto(r, l), UNCHANGED fd, Held(l) = Held(pc[r])
      PROVE  Done(l)
  BY <1>0, <1>3 DEF NetInv, TypeOK
<1>4. CASE get_if_index(r) /\ ~Return(r)
  <2>1. PICK l \in {"tx_index", "rx_index"} : Goto(r, l) /\ fd' = [ fd EXCEPT ![r] = @ + 1 ]
    BY <1>4, SMT DEF get_if_index, IndexOf
  <2>2. Held(pc[r]) = 1
    BY <1>4, SMT DEF get_if_index, IndexOf, Held
  <2>3. fd[r] + 1 = Held(l)
    BY <1>0, <2>2, SMT DEF Held
  <2>4. Done(l)
    BY <2>1, <2>3, Zenon
  <2>5. QED
    BY <2>4 DEF Calls
<1>5. CASE get_if_index_ioctl(r)
  <2>1. Held(pc[r]) = 2
    BY <1>5, SMT DEF get_if_index_ioctl, WithIndex, Held
  <2>2. \/ \E l \in {"sendto", "bind"} : Goto(r, l) /\ fd' = [ fd EXCEPT ![r] = @ - 1 ]
        \/ Goto(r, "menu") /\ fd' = [ fd EXCEPT ![r] = @ - 2 ]
    BY <1>5, SMT DEF get_if_index_ioctl, WithIndex, WithoutIndex
  <2>3. /\ fd[r] - 2 = Held("menu")
        /\ fd[r] - 1 = Held("sendto") /\ fd[r] - 1 = Held("bind")
    BY <1>0, <2>1, SMT DEF Held
  <2>4. \E l \in {"menu", "sendto", "bind"} : Done(l)
    BY <2>2, <2>3, Zenon
  <2>5. QED
    BY <2>4 DEF Calls
<1>6. CASE Call(r) /\ ~get_if_index_ioctl(r)
  <2>1. CASE query_ioctl(r) \/ set_if_name_ioctl(r) \/ set_if_state_set(r)
              \/ set_ip_addr_mask(r) \/ get_ip_addr_mask(r) \/ tx_pkt_send(r) \/ rx_pkt_recv(r)
    BY <1>2, <2>1 DEF query_ioctl, set_if_name_ioctl, set_if_state_set,
       set_ip_addr_mask, get_ip_addr_mask, tx_pkt_send, rx_pkt_recv, Calls
  <2>2. CASE set_if_state_get(r)
    BY <1>2, <1>3, <2>2 DEF set_if_state_get, Calls, Held
  <2>3. CASE set_ip_addr_addr(r)
    BY <1>2, <1>3, <2>3 DEF set_ip_addr_addr, Calls, Held
  <2>4. CASE get_ip_addr_addr(r)
    BY <1>2, <1>3, <2>4 DEF get_ip_addr_addr, Calls, Held
  <2>5. CASE rx_pkt_bind(r)
    BY <1>2, <1>3, <2>5 DEF rx_pkt_bind, Calls, Held
  <2>6. CASE get_if_index(r)
    BY <1>2, <1>4, <2>6 DEF get_if_index, IndexOf, Calls
  <2>7. QED
    BY <1>6, <2>1, <2>2, <2>3, <2>4, <2>5, <2>6 DEF Call
<1>7. QED
  BY <1>1, <1>5, <1>6 DEF Step

LEMMA HeldStep ==
  ASSUME NetInv, NEW r \in Proc, Step(r)
  PROVE  /\ pc' \in [ Proc -> Calls ] /\ fd' \in [ Proc -> 0 .. 2 ]
         /\ DescriptorsHeld'
<1>1. PICK l \in Calls : Goto(r, l) /\ fd' = [ fd EXCEPT ![r] = Held(l) ]
  BY Moves
<1>2. Held(l) \in 0 .. 2
  BY SMT DEF Held
<1>3. pc \in [ Proc -> Calls ] /\ fd \in [ Proc -> 0 .. 2 ] /\ DescriptorsHeld
  BY DEF NetInv, TypeOK, Calls
<1>4. QED
  BY <1>1, <1>2, <1>3, Zenon DEF DescriptorsHeld, Goto
-----------------------------------------------------------------------------
(* What a step does to the kernel and to the other processes. *)

\* Each part of the kernel's table is changed by one system call only.
LEMMA KernelChanges ==
  ASSUME NEW r \in Proc, Step(r)
  PROVE  /\ name' # name => set_if_name_ioctl(r)
         /\ flags' # flags => set_if_state_set(r)
         /\ addr' # addr => set_ip_addr_addr(r)
         /\ mask' # mask => set_ip_addr_addr(r) \/ set_ip_addr_mask(r)
         /\ iface' # iface => set_if_name_ioctl(r)
BY DEF Step, Choose, Call, query, set_if_name, set_if_state, set_ip_addr, get_ip_addr, tx_pkt,
   rx_pkt, query_ioctl, set_if_name_ioctl, set_if_state_get, set_if_state_set,
   set_ip_addr_addr, set_ip_addr_mask, get_ip_addr_addr, get_ip_addr_mask, get_if_index,
   get_if_index_ioctl, tx_pkt_send, rx_pkt_bind, rx_pkt_recv, kernel

\* What the other processes keep for themselves stays.
LEMMA OthersKeep ==
  ASSUME NetInv, NEW r \in Proc, Step(r), NEW p \in Proc \ {r}
  PROVE  /\ pc'[p] = pc[p] /\ iface'[p] = iface[p] /\ index'[p] = index[p]
         /\ ifr'[p] = ifr[p] /\ given'[p] = given[p] /\ shown'[p] = shown[p]
<1>1. pc'[p] = pc[p]
  <2>1. PICK l \in Calls : Goto(r, l)
    BY Moves
  <2>2. QED
    BY <2>1 DEF Goto, NetInv, TypeOK
<1>2. iface'[p] = iface[p]
  BY KernelChanges DEF set_if_name_ioctl, NetInv, TypeOK
<1> DEFINE Kept == /\ index'[p] = index[p] /\ ifr'[p] = ifr[p]
                   /\ given'[p] = given[p] /\ shown'[p] = shown[p]
<1>3. ASSUME UNCHANGED local
      PROVE  Kept
  BY <1>3 DEF local
<1>4. ASSUME \/ Return(r) \/ set_if_state_get(r) \/ set_ip_addr(r) \/ get_ip_addr_addr(r)
             \/ get_if_index_ioctl(r)
      PROVE  Kept
  <2> USE DEF NetInv, TypeOK
  <2>1. CASE Return(r)
    BY <2>1 DEF Return
  <2>2. CASE set_if_state_get(r)
    BY <2>1, <2>2 DEF set_if_state_get
  <2>3. CASE set_ip_addr(r)
    BY <2>3 DEF set_ip_addr
  <2>4. CASE get_ip_addr_addr(r)
    BY <2>1, <2>4 DEF get_ip_addr_addr
  <2>5. CASE get_if_index_ioctl(r)
    BY <2>5 DEF get_if_index_ioctl
  <2>6. QED
    BY <1>4, <2>1, <2>2, <2>3, <2>4, <2>5
<1> HIDE DEF Kept
<1>5. ASSUME Choose(r) PROVE Kept
  BY <1>3, <1>4, <1>5, Zenon DEF Choose, query, set_if_name, set_if_state, get_ip_addr, tx_pkt, rx_pkt
<1>6. ASSUME Call(r) PROVE Kept
  BY <1>3, <1>4, <1>6, Zenon DEF Call, query_ioctl, set_if_name_ioctl, set_if_state_set,
     set_ip_addr_addr, set_ip_addr_mask, get_ip_addr_mask, get_if_index, tx_pkt_send,
     rx_pkt_bind, rx_pkt_recv
<1>7. QED
  BY <1>1, <1>2, <1>5, <1>6 DEF Step, Kept
-----------------------------------------------------------------------------
(* The invariant. *)

\* The kernel's table keeps its types, and its names apart.
LEMMA KernelStep ==
  ASSUME NetInv, NEW r \in Proc, Step(r)
  PROVE  /\ name' \in [ If -> Name ] /\ UniqueNames'
         /\ iface' \in [ Proc -> Name ]
         /\ flags' \in [ If -> SUBSET (Asked \cup Other) ]
         /\ addr' \in [ If -> Cfg \cup {NONE} ] /\ mask' \in [ If -> Cfg \cup {NONE} ]
<1> USE DEF NetInv, TypeOK
<1>1. CASE set_if_name_ioctl(r)
  <2>1. flags' = flags /\ addr' = addr /\ mask' = mask
    BY <1>1 DEF set_if_name_ioctl
  <2>2. CASE UNCHANGED <<name, iface>>
    BY <2>1, <2>2 DEF UniqueNames
  <2>3. ASSUME NEW i \in If, NEW new \in Name, \A j \in If \ {i} : name[j] # new,
               name' = [ name EXCEPT ![i] = new ], iface' = [ iface EXCEPT ![r] = new ]
        PROVE  name' \in [ If -> Name ] /\ UniqueNames' /\ iface' \in [ Proc -> Name ]
    BY <2>3 DEF UniqueNames
  <2>4. QED
    BY <1>1, <2>1, <2>2, <2>3 DEF set_if_name_ioctl, Renamed, Named
<1>2. CASE ~set_if_name_ioctl(r)
  <2>1. name' = name /\ iface' = iface /\ UniqueNames'
    BY <1>2, KernelChanges DEF UniqueNames
  <2>2. flags' \in [ If -> SUBSET (Asked \cup Other) ]
    BY KernelChanges DEF set_if_state_set, NewFlags, Named
  <2>3. addr' \in [ If -> Cfg \cup {NONE} ] /\ mask' \in [ If -> Cfg \cup {NONE} ]
    BY KernelChanges DEF set_ip_addr_addr, set_ip_addr_mask, Named
  <2>4. QED
    BY <2>1, <2>2, <2>3
<1>3. QED
  BY <1>1, <1>2

LEMMA LocalStep ==
  ASSUME NetInv, NEW r \in Proc, Step(r)
  PROVE  /\ index' \in [ Proc -> If \cup {NONE} ]
         /\ ifr' \in [ Proc -> SUBSET (Asked \cup Other) ]
         /\ given' \in [ Proc -> Cfg \cup {NONE} ] /\ shown' \in [ Proc -> Cfg \cup {NONE} ]
<1> DEFINE Typed == /\ index' \in [ Proc -> If \cup {NONE} ]
                    /\ ifr' \in [ Proc -> SUBSET (Asked \cup Other) ]
                    /\ given' \in [ Proc -> Cfg \cup {NONE} ]
                    /\ shown' \in [ Proc -> Cfg \cup {NONE} ]
<1>1. ASSUME UNCHANGED local PROVE Typed
  BY <1>1 DEF local, NetInv, TypeOK
<1>2. ASSUME Return(r) PROVE Typed
  BY <1>2 DEF Return, NetInv, TypeOK
<1>3. ASSUME \/ set_if_state_get(r) \/ set_ip_addr(r) \/ get_ip_addr_addr(r)
             \/ get_if_index_ioctl(r)
      PROVE  Typed
  BY <1>2, <1>3 DEF set_if_state_get, set_ip_addr, get_ip_addr_addr, get_if_index_ioctl,
     Named, NetInv, TypeOK
<1> HIDE DEF Typed
<1>4. ASSUME Choose(r) PROVE Typed
  BY <1>1, <1>3, <1>4, Zenon DEF Choose, query, set_if_name, set_if_state, get_ip_addr, tx_pkt, rx_pkt
<1>5. ASSUME Call(r) PROVE Typed
  BY <1>1, <1>2, <1>3, <1>5, Zenon DEF Call, query_ioctl, set_if_name_ioctl, set_if_state_set,
     set_ip_addr_addr, set_ip_addr_mask, get_ip_addr_mask, get_if_index, tx_pkt_send,
     rx_pkt_bind, rx_pkt_recv
<1>6. QED
  BY <1>4, <1>5 DEF Step, Typed

LEMMA NetInvStep == NetInv /\ [Next]_vars => NetInv'
<1>1. ASSUME NetInv, NEW r \in Proc, Step(r) PROVE NetInv'
  BY <1>1, HeldStep, KernelStep, LocalStep DEF NetInv, TypeOK, Calls
<1>2. ASSUME NetInv, UNCHANGED vars PROVE NetInv'
  BY <1>2 DEF vars, kernel, local, NetInv, TypeOK, UniqueNames, DescriptorsHeld
<1>3. QED
  BY <1>1, <1>2 DEF Next, Step

LEMMA NetInvInit == Init => NetInv
<1> SUFFICES ASSUME Init PROVE NetInv
  OBVIOUS
<1>1. fd \in [ Proc -> 0 .. 2 ] /\ DescriptorsHeld
  BY SMT DEF Init, DescriptorsHeld, Held
<1>2. iface \in [ Proc -> Name ]
  BY DEF Init
<1>3. QED
  BY <1>1, <1>2 DEF Init, NetInv, TypeOK, UniqueNames

LEMMA NetInvAlways == Spec => []NetInv
BY NetInvInit, NetInvStep, PTL DEF Spec

\* TYPES of NetApis.
THEOREM NetTyped == Spec => []TypeOK
<1>1. NetInv => TypeOK
  BY DEF NetInv
<1>2. QED
  BY <1>1, NetInvAlways, PTL

\* DESCRIPTORS RETURNED.  Whichever system call fails, nothing a call of
\* net_apis.c has opened is open when net_ops is back at its menu.
THEOREM NothingOpen == Spec => []DescriptorsReturned
<1>1. NetInv => DescriptorsReturned
  BY DEF NetInv, DescriptorsHeld, DescriptorsReturned, Held
<1>2. QED
  BY <1>1, NetInvAlways, PTL
-----------------------------------------------------------------------------
(* What a process knows. *)

\* A process that knows the interface it changes keeps the flags it is not
\* asked for.
LEMMA FlagsKept ==
  ASSUME NetInv, NEW r \in Proc, set_if_state_set(r), Consistent(r), NEW i \in If
  PROVE  flags'[i] \cap Other = flags[i] \cap Other
<1>1. PICK j \in Named(r), want \in SUBSET Asked :
        flags' = flags \/ flags' = [ flags EXCEPT ![j] = NewFlags(r, want) ]
  BY DEF set_if_state_set, Consistent
<1>2. flags[j] \cap Other = ifr[r] \cap Other /\ j \in If
  BY DEF set_if_state_set, Consistent, Named
<1>3. NewFlags(r, want) \cap Other = ifr[r] \cap Other
  BY NetApisAssumption DEF NewFlags, NetInv, TypeOK
<1>4. QED
  BY <1>1, <1>2, <1>3 DEF NetInv, TypeOK

\* No step of its own makes what a process knows wrong.
LEMMA OwnStepKnown ==
  ASSUME NetInv, NEW r \in Proc, Step(r), Consistent(r)
  PROVE  Consistent(r)'
<1> DEFINE Harmless == {"menu", "query", "set_name", "get_flags", "set_addr", "get_addr",
                        "tx_socket", "rx_socket", "tx_index", "rx_index", "recv"}
<1> USE DEF NetInv, TypeOK
<1>1. CASE set_if_name_ioctl(r)
  <2>1. pc'[r] = "menu"
    BY <1>1 DEF set_if_name_ioctl, Return, Goto
  <2>2. Named(r)' # {}
    BY <1>1 DEF set_if_name_ioctl, Consistent, Named, Renamed
  <2>3. QED
    BY <2>1, <2>2 DEF Consistent
<1>2. CASE ~set_if_name_ioctl(r)
  <2>1. name' = name /\ iface' = iface /\ Named(r)' = Named(r) /\ Named(r) # {}
    BY <1>2, KernelChanges DEF Named, Consistent
  <2>2. ASSUME pc'[r] \in Harmless PROVE Consistent(r)'
    BY <2>1, <2>2 DEF Consistent
  <2>3. \A i \in Named(r) : i \in If /\ name[i] = iface[r]
    BY DEF Named
  <2>4. \A i, j \in Named(r) : i = j
    BY <2>3 DEF UniqueNames
  <2>5. ASSUME Return(r) PROVE Consistent(r)'
    BY <2>2, <2>5 DEF Return, Goto
  <2>6. ASSUME NEW l \in Harmless, Goto(r, l) PROVE Consistent(r)'
    BY <2>2, <2>6 DEF Goto
  <2>7. CASE Choose(r)
    BY <2>6, <2>7 DEF Choose, Socket, query, set_if_name, set_if_state, set_ip_addr,
       get_ip_addr, tx_pkt, rx_pkt
  <2>8. ASSUME set_if_state_get(r) PROVE Consistent(r)'
    <3>1. CASE Return(r)
      BY <2>5, <3>1
    <3>2. CASE \E i \in Named(r) : ifr' = [ ifr EXCEPT ![r] = flags[i] ] /\ Goto(r, "set_flags")
      <4>1. PICK i \in Named(r) : ifr' = [ ifr EXCEPT ![r] = flags[i] ] /\ Goto(r, "set_flags")
        BY <3>2
      <4>2. pc'[r] = "set_flags" /\ ifr'[r] = flags[i] /\ flags' = flags
        BY <2>8, <4>1 DEF Goto, set_if_state_get, kernel
      <4>3. \A j \in Named(r)' : flags'[j] \cap Other = ifr'[r] \cap Other
        BY <2>1, <2>4, <4>1, <4>2
      <4>4. QED
        BY <2>1, <4>2, <4>3 DEF Consistent
    <3>3. QED
      BY <2>8, <3>1, <3>2 DEF set_if_state_get
  <2>9. ASSUME set_ip_addr_addr(r) PROVE Consistent(r)'
    <3>1. CASE Return(r)
      BY <2>5, <3>1
    <3>2. CASE \E i \in Named(r) : addr' = [ addr EXCEPT ![i] = given[r] ]
                 /\ Goto(r, "set_mask") /\ UNCHANGED local
      <4>1. PICK i \in Named(r) : addr' = [ addr EXCEPT ![i] = given[r] ]
        BY <3>2
      <4>2. pc'[r] = "set_mask" /\ given' = given
        BY <3>2 DEF Goto, local
      <4>3. \A j \in Named(r)' : addr'[j] = given'[r]
        BY <2>1, <2>3, <2>4, <4>1, <4>2
      <4>4. QED
        BY <2>1, <4>2, <4>3 DEF Consistent
    <3>3. QED
      BY <2>9, <3>1, <3>2 DEF set_ip_addr_addr
  <2>10. ASSUME get_ip_addr_addr(r) PROVE Consistent(r)'
    <3>1. CASE Return(r)
      BY <2>5, <3>1
    <3>2. CASE \E i \in Named(r) : shown' = [ shown EXCEPT ![r] = addr[i] ] /\ Goto(r, "get_mask")
      <4>1. PICK i \in Named(r) : shown' = [ shown EXCEPT ![r] = addr[i] ]
        BY <3>2
      <4>2. pc'[r] = "get_mask" /\ addr' = addr /\ shown'[r] = addr[i]
        BY <2>10, <3>2, <4>1 DEF Goto, get_ip_addr_addr, kernel
      <4>3. \A j \in Named(r)' : addr'[j] = shown'[r]
        BY <2>1, <2>4, <4>1, <4>2
      <4>4. QED
        BY <2>1, <4>2, <4>3 DEF Consistent
    <3>3. QED
      BY <2>10, <3>1, <3>2 DEF get_ip_addr_addr
  <2>11. ASSUME get_if_index(r) PROVE Consistent(r)'
    <3>1. Return(r) \/ \E l \in {"tx_index", "rx_index"} : Goto(r, l)
      BY <2>11, SMT DEF get_if_index, IndexOf
    <3>2. QED
      BY <2>5, <2>6, <3>1
  <2>12. ASSUME get_if_index_ioctl(r) PROVE Consistent(r)'
    <3>1. CASE Goto(r, "menu")
      BY <2>6, <3>1
    <3>2. CASE \E i \in Named(r), l \in {"sendto", "bind"} :
                 index' = [ index EXCEPT ![r] = i ] /\ Goto(r, l)
      <4>1. PICK i \in Named(r), l \in {"sendto", "bind"} :
              index' = [ index EXCEPT ![r] = i ] /\ Goto(r, l)
        BY <3>2
      <4>2. pc'[r] = l /\ index'[r] = i
        BY <4>1 DEF Goto
      <4>3. name'[index'[r]] = iface'[r]
        BY <2>1, <2>3, <4>2
      <4>4. QED
        BY <2>1, <4>2, <4>3 DEF Consistent
    <3>3. QED
      BY <2>12, <3>1, <3>2, SMT DEF get_if_index_ioctl, WithIndex
  <2>13. CASE Call(r)
    BY <1>2, <2>5, <2>6, <2>8, <2>9, <2>10, <2>11, <2>12, <2>13 DEF Call, query_ioctl,
       set_if_state_set, set_ip_addr_mask, get_ip_addr_mask, tx_pkt_send, rx_pkt_bind, rx_pkt_recv
  <2>14. QED
    BY <2>7, <2>13 DEF Step
<1>3. QED
  BY <1>1, <1>2

\* A step of another process does so only by a new name, a new address, or
\* flags of another interface.
LEMMA OtherStepKnown ==
  ASSUME NetInv, NEW r \in Proc, Step(r), NEW p \in Proc \ {r}, Consistent(p),
         ~Renames(r), ~Addresses(r), ~Misflags(r)
  PROVE  Consistent(p)'
<1>1. /\ pc'[p] = pc[p] /\ iface'[p] = iface[p] /\ index'[p] = index[p]
      /\ ifr'[p] = ifr[p] /\ given'[p] = given[p] /\ shown'[p] = shown[p]
  BY OthersKeep
<1>2. name' = name /\ addr' = addr
  BY KernelChanges DEF Renames, Addresses, set_if_name_ioctl, set_ip_addr_addr
<1>3. \A i \in If : flags'[i] \cap Other = flags[i] \cap Other
  BY KernelChanges, FlagsKept DEF Misflags, set_if_state_set
<1>4. Named(p)' = Named(p) /\ Named(p) \subseteq If
  BY <1>1, <1>2 DEF Named
<1>5. QED
  BY <1>1, <1>2, <1>3, <1>4 DEF Consistent

\* ONLY OTHERS DISTURB.  Whichever of its system calls fails, what a process
\* knows of its interface is made wrong only by another process, which
\* renames the interface, gives it an address, or was so disturbed itself.
THEOREM OnlyOthers == Spec => OnlyOthersDisturb
<1>1. ASSUME NetInv, [Next]_vars, NEW p \in Proc, Consistent(p), ~Consistent(p)'
      PROVE  \E q \in Proc \ {p} : Renames(q) \/ Addresses(q) \/ Misflags(q)
  <2>1. CASE UNCHANGED vars
    BY <1>1, <2>1 DEF vars, kernel, local, Consistent, Named
  <2>2. CASE \E r \in Proc : Step(r)
    <3>1. PICK r \in Proc : Step(r)
      BY <2>2
    <3>2. r # p
      BY <1>1, <3>1, OwnStepKnown
    <3>3. Renames(r) \/ Addresses(r) \/ Misflags(r)
      BY <1>1, <3>1, <3>2, OtherStepKnown
    <3>4. QED
      BY <3>2, <3>3
  <2>3. QED
    BY <1>1, <2>1, <2>2 DEF Next, Step
<1>2. NetInv /\ [Next]_vars =>
        [\A p \in Proc : Consistent(p) /\ ~Consistent(p)' =>
           \E q \in Proc \ {p} : Renames(q) \/ Addresses(q) \/ Misflags(q)]_vars
  BY <1>1
<1>3. QED
  BY <1>2, NetInvAlways, PTL DEF Spec, OnlyOthersDisturb

\* TORN PAIRS.  An interface gets the mask of another address only from a
\* process whose knowledge has been made wrong.
THEOREM TornByRace == Spec => PairTornByRace
<1>1. ASSUME NetInv, [Next]_vars, NEW i \in If, ~Torn(i), Torn(i)'
      PROVE  \E p \in Proc : pc[p] = "set_mask" /\ ~Consistent(p)
  <2>1. mask' # mask \/ addr' # addr
    BY <1>1 DEF Torn
  <2>2. PICK r \in Proc : Step(r)
    BY <1>1, <2>1 DEF Next, Step, vars, kernel
  <2>3. ~set_ip_addr_addr(r)
    <3>1. ASSUME NEW j \in If, NEW a, addr' = [ addr EXCEPT ![j] = a ],
                 mask' = [ mask EXCEPT ![j] = NONE ]
          PROVE  ~Torn(i)'
      BY <1>1, <3>1 DEF Torn, NetInv, TypeOK
    <3>2. QED
      BY <1>1, <2>1, <3>1 DEF set_ip_addr_addr, Named
  <2>4. set_ip_addr_mask(r) /\ mask' # mask
    BY <2>1, <2>2, <2>3, KernelChanges
  <2>5. PICK j \in Named(r) : mask' = [ mask EXCEPT ![j] = given[r] ]
    BY <2>4 DEF set_ip_addr_mask
  <2>6. i = j /\ given[r] # addr[i]
    BY <1>1, <2>4, <2>5 DEF Torn, set_ip_addr_mask, Named, NetInv, TypeOK
  <2>7. QED
    BY <2>4, <2>5, <2>6 DEF set_ip_addr_mask, Consistent
<1>2. NetInv /\ [Next]_vars =>
        [\A i \in If : ~Torn(i) /\ Torn(i)' =>
           \E p \in Proc : pc[p] = "set_mask" /\ ~Consistent(p)]_vars
  BY <1>1
<1>3. QED
  BY <1>2, NetInvAlways, PTL DEF Spec, PairTornByRace

\* ONLY THE FLAGS ASKED FOR.  set_if_state changes another flag only when the
\* name it uses has gone to another interface between its two ioctls.
THEOREM FlagsAsked == Spec => OnlyAskedFlags
<1>1. ASSUME NetInv, [Next]_vars, NEW i \in If,
             flags'[i] \cap Other # flags[i] \cap Other
      PROVE  \E p \in Proc : pc[p] = "set_flags" /\ ~Consistent(p)
  <2>1. PICK r \in Proc : Step(r)
    BY <1>1 DEF Next, Step, vars, kernel
  <2>2. set_if_state_set(r)
    BY <1>1, <2>1, KernelChanges
  <2>3. QED
    BY <1>1, <2>2, FlagsKept DEF set_if_state_set
<1>2. NetInv /\ [Next]_vars =>
        [\A i \in If : flags'[i] \cap Other # flags[i] \cap Other =>
           \E p \in Proc : pc[p] = "set_flags" /\ ~Consistent(p)]_vars
  BY <1>1
<1>3. QED
  BY <1>2, NetInvAlways, PTL DEF Spec, OnlyAskedFlags
=============================================================================
