------------------------------ MODULE NetApis -------------------------------
(***************************************************************************)
(* Apps/net_apis.c and the menu of Apps/net_ops.c that calls it: reading   *)
(* and changing the configuration of network interfaces, and sending and   *)
(* receiving raw packets.  Every call opens a socket, asks the kernel with *)
(* one or two ioctls, each of which names the interface, and closes the    *)
(* socket; any of the system calls can fail.                               *)
(*                                                                         *)
(* The actors are processes that run net_ops.  The kernel's table of       *)
(* interfaces is shared by all of them, and it can change between any two  *)
(* system calls.  Most of the ioctl commands are left to fill in, "TODO":  *)
(* the model is the program with the commands its comments describe; the   *)
(* committed one has only the behaviours in which those ioctls fail.       *)
(***************************************************************************)
EXTENDS Naturals

CONSTANTS
  Proc,   \* processes that run net_ops
  If,     \* network interfaces (their indices)
  Name,   \* names of interfaces
  Asked,  \* the flags set_if_state is asked for: IFF_UP and IFF_PROMISC
  Other,  \* the other flags of an interface
  UP,     \* IFF_UP
  Cfg,    \* addresses, each with the net mask that is entered with it
  NONE    \* nothing: no address, no index, or the mask of a new address

ASSUME NetApisAssumption ==
  UP \in Asked /\ Asked \cap Other = {} /\ NONE \notin Cfg \cup If

VARIABLES
  name,   \* the kernel: name of each interface
  flags,  \*   its flags
  addr,   \*   its address: the entry of Cfg it is from, or NONE
  mask,   \*   its net mask, likewise
  iface,  \* per process: the name net_ops works with
  pc,     \*   the system call it makes next, "menu" between two choices
  fd,     \*   descriptors it has open
  index,  \*   iface_index of tx_pkt and rx_pkt, once they have it
  ifr,    \*   ifr_flags of set_if_state
  given,  \*   address and mask that the running set_ip_addr was given
  shown   \*   address the running get_ip_addr has read, to be printed

kernel == <<name, flags, addr, mask>>
local  == <<index, ifr, given, shown>>
vars   == <<kernel, iface, pc, fd, local>>

\* The interface a process means: what the kernel makes of ifr_name.
Named(p) == { i \in If : name[i] = iface[p] }

Goto(p, l) == pc' = [ pc EXCEPT ![p] = l ]

\* socket(): when it fails the call returns to the menu with nothing done.
Socket(p, l) ==
  /\ pc[p] = "menu"
  /\ Goto(p, l) /\ fd' = [ fd EXCEPT ![p] = @ + 1 ]

\* The descriptor of the call is closed and the call returns, its local
\* variables gone.
Return(p) ==
  /\ Goto(p, "menu") /\ fd' = [ fd EXCEPT ![p] = @ - 1 ]
  /\ index' = [ index EXCEPT ![p] = NONE ] /\ ifr' = [ ifr EXCEPT ![p] = {} ]
  /\ given' = [ given EXCEPT ![p] = NONE ] /\ shown' = [ shown EXCEPT ![p] = NONE ]
-----------------------------------------------------------------------------
(* Calls with one ioctl.  get_mac_addr stands for get_if_state and, called *)
(* from the menu, get_if_index as well: they read, and the answer is only  *)
(* printed.  (set_mac_addr is left out, and with it the MAC address.)      *)
(* set_if_name changes the table.                                          *)

query(p) == Socket(p, "query") /\ UNCHANGED <<kernel, iface, local>>

query_ioctl(p) ==
  /\ pc[p] = "query"
  /\ Return(p)
  /\ UNCHANGED <<kernel, iface>>

set_if_name(p) == Socket(p, "set_name") /\ UNCHANGED <<kernel, iface, local>>

\* Mutant: net_ops goes on with the old name.
RenamedForgotten(p, new) == iface[p]

\* The name that net_ops works with after it has changed iface into another.
Renamed(p, new) == new

\* Names are unique, and an interface that is up keeps its name.
set_if_name_ioctl(p) ==
  /\ pc[p] = "set_name"
  /\ \/ \E i \in Named(p), new \in Name :
          /\ UP \notin flags[i] /\ \A j \in If \ {i} : name[j] # new
          /\ name' = [ name EXCEPT ![i] = new ]
          /\ iface' = [ iface EXCEPT ![p] = Renamed(p, new) ]
     \/ UNCHANGED <<name, iface>>
  /\ Return(p)
  /\ UNCHANGED <<flags, addr, mask>>
-----------------------------------------------------------------------------
(* set_if_state: read the flags, change those asked for, write them back.  *)

set_if_state(p) == Socket(p, "get_flags") /\ UNCHANGED <<kernel, iface, local>>

set_if_state_get(p) ==
  /\ pc[p] = "get_flags"
  /\ \/ \E i \in Named(p) :
          /\ ifr' = [ ifr EXCEPT ![p] = flags[i] ]
          /\ Goto(p, "set_flags") /\ UNCHANGED <<fd, index, given, shown>>
     \/ Return(p)
  /\ UNCHANGED <<kernel, iface>>

\* Mutant: the flags that were read are not used.
NewFlagsOnlyAsked(p, want) == want

NewFlags(p, want) == (ifr[p] \ Asked) \cup want

set_if_state_set(p) ==
  /\ pc[p] = "set_flags"
  /\ \/ \E i \in Named(p), want \in SUBSET Asked :
          flags' = [ flags EXCEPT ![i] = NewFlags(p, want) ]
     \/ UNCHANGED flags
  /\ Return(p)
  /\ UNCHANGED <<name, addr, mask, iface>>
-----------------------------------------------------------------------------
(* set_ip_addr and get_ip_addr: the address, and then the net mask.        *)

set_ip_addr(p) ==
  /\ Socket(p, "set_addr")
  /\ \E c \in Cfg : given' = [ given EXCEPT ![p] = c ]
  /\ UNCHANGED <<kernel, iface, index, ifr, shown>>

\* Mutant: the commands of the two ioctls are filled in the wrong way round.
set_ip_addr_addrSwapped(p) ==
  /\ pc[p] = "set_addr"
  /\ \/ /\ \E i \in Named(p) : mask' = [ mask EXCEPT ![i] = given[p] ]
        /\ Goto(p, "set_mask") /\ UNCHANGED <<fd, local>>
     \/ Return(p) /\ UNCHANGED mask
  /\ UNCHANGED <<name, flags, addr, iface>>

\* A new address comes with the mask of its class.
set_ip_addr_addr(p) ==
  /\ pc[p] = "set_addr"
  /\ \/ \E i \in Named(p) :
          /\ addr' = [ addr EXCEPT ![i] = given[p] ]
          /\ mask' = [ mask EXCEPT ![i] = NONE ]
          /\ Goto(p, "set_mask") /\ UNCHANGED <<fd, local>>
     \/ Return(p) /\ UNCHANGED <<addr, mask>>
  /\ UNCHANGED <<name, flags, iface>>

\* Without nmask, or when the ioctl fails, the new address stays.
set_ip_addr_mask(p) ==
  /\ pc[p] = "set_mask"
  /\ \/ \E i \in Named(p) : addr[i] # NONE /\ mask' = [ mask EXCEPT ![i] = given[p] ]
     \/ UNCHANGED mask
  /\ Return(p)
  /\ UNCHANGED <<name, flags, addr, iface>>

get_ip_addr(p) == Socket(p, "get_addr") /\ UNCHANGED <<kernel, iface, local>>

get_ip_addr_addr(p) ==
  /\ pc[p] = "get_addr"
  /\ \/ \E i \in Named(p) :
          /\ addr[i] # NONE
          /\ shown' = [ shown EXCEPT ![p] = addr[i] ]
          /\ Goto(p, "get_mask") /\ UNCHANGED <<fd, index, ifr, given>>
     \/ Return(p)
  /\ UNCHANGED <<kernel, iface>>

get_ip_addr_mask(p) ==
  /\ pc[p] = "get_mask"
  /\ Return(p)
  /\ UNCHANGED <<kernel, iface>>
-----------------------------------------------------------------------------
(* tx_pkt and rx_pkt: with a packet socket open they call get_if_index,    *)
(* which opens and closes a socket of its own, and go on with the index.   *)

tx_pkt(p) == Socket(p, "tx_socket") /\ UNCHANGED <<kernel, iface, local>>
rx_pkt(p) == Socket(p, "rx_socket") /\ UNCHANGED <<kernel, iface, local>>

IndexOf == [ tx_socket |-> "tx_index", rx_socket |-> "rx_index" ]
WithIndex == [ tx_index |-> "sendto", rx_index |-> "bind" ]

get_if_index(p) ==
  /\ pc[p] \in DOMAIN IndexOf
  /\ \/ /\ Goto(p, IndexOf[pc[p]]) /\ fd' = [ fd EXCEPT ![p] = @ + 1 ]
        /\ UNCHANGED local
     \/ Return(p)
  /\ UNCHANGED <<kernel, iface>>

\* Mutant: tx_pkt and rx_pkt return without closing their socket.
WithoutIndexOpen(n) == n - 1

\* Descriptors left when get_if_index, and with it its caller, fails.
WithoutIndex(n) == n - 2

get_if_index_ioctl(p) ==
  /\ pc[p] \in DOMAIN WithIndex
  /\ \/ \E i \in Named(p) :
          /\ index' = [ index EXCEPT ![p] = i ]
          /\ Goto(p, WithIndex[pc[p]]) /\ fd' = [ fd EXCEPT ![p] = @ - 1 ]
     \/ /\ Goto(p, "menu") /\ fd' = [ fd EXCEPT ![p] = WithoutIndex(@) ]
        /\ UNCHANGED index
  /\ UNCHANGED <<kernel, iface, ifr, given, shown>>

\* Sent or not, the socket is closed.
tx_pkt_send(p) ==
  /\ pc[p] = "sendto"
  /\ Return(p)
  /\ UNCHANGED <<kernel, iface>>

rx_pkt_bind(p) ==
  /\ pc[p] = "bind"
  /\ \/ Goto(p, "recv") /\ UNCHANGED <<fd, local>>
     \/ Return(p)
  /\ UNCHANGED <<kernel, iface>>

rx_pkt_recv(p) ==
  /\ pc[p] = "recv"
  /\ Return(p)
  /\ UNCHANGED <<kernel, iface>>
-----------------------------------------------------------------------------
Init ==
  /\ name \in [ If -> Name ] /\ \A i, j \in If : name[i] = name[j] => i = j
  /\ flags \in [ If -> SUBSET (Asked \cup Other) ]
  /\ addr = [ i \in If |-> NONE ] /\ mask = [ i \in If |-> NONE ]
  /\ iface \in [ Proc -> { name[i] : i \in If } ]
  /\ pc = [ p \in Proc |-> "menu" ] /\ fd = [ p \in Proc |-> 0 ]
  /\ index = [ p \in Proc |-> NONE ] /\ ifr = [ p \in Proc |-> {} ]
  /\ given = [ p \in Proc |-> NONE ] /\ shown = [ p \in Proc |-> NONE ]

Choose(p) ==
  \/ query(p) \/ set_if_name(p) \/ set_if_state(p) \/ set_ip_addr(p)
  \/ get_ip_addr(p) \/ tx_pkt(p) \/ rx_pkt(p)

Call(p) ==
  \/ query_ioctl(p) \/ set_if_name_ioctl(p)
  \/ set_if_state_get(p) \/ set_if_state_set(p)
  \/ set_ip_addr_addr(p) \/ set_ip_addr_mask(p)
  \/ get_ip_addr_addr(p) \/ get_ip_addr_mask(p)
  \/ get_if_index(p) \/ get_if_index_ioctl(p)
  \/ tx_pkt_send(p) \/ rx_pkt_bind(p) \/ rx_pkt_recv(p)

Next == \E p \in Proc : Choose(p) \/ Call(p)

Spec == Init /\ [][Next]_vars
-----------------------------------------------------------------------------
(* Properties. *)

\* Every variable stays in its range.
TypeOK ==
  /\ name \in [ If -> Name ] /\ flags \in [ If -> SUBSET (Asked \cup Other) ]
  /\ addr \in [ If -> Cfg \cup {NONE} ] /\ mask \in [ If -> Cfg \cup {NONE} ]
  /\ iface \in [ Proc -> Name ] /\ fd \in [ Proc -> 0 .. 2 ]
  /\ pc \in [ Proc -> {"menu", "query", "set_name", "get_flags", "set_flags",
                       "set_addr", "set_mask", "get_addr", "get_mask",
                       "tx_socket", "rx_socket", "tx_index", "rx_index",
                       "sendto", "bind", "recv"} ]
  /\ index \in [ Proc -> If \cup {NONE} ] /\ ifr \in [ Proc -> SUBSET (Asked \cup Other) ]
  /\ given \in [ Proc -> Cfg \cup {NONE} ] /\ shown \in [ Proc -> Cfg \cup {NONE} ]

\* Whichever of its system calls fails, a call has closed what it opened when
\* net_ops is back at its menu, which it offers for as long as one likes.
DescriptorsReturned == \A p \in Proc : pc[p] = "menu" => fd[p] = 0

\* What a process knows still holds of the interface: net_ops has a name
\* some interface bears; the flags set_if_state is about to write back are
\* those it was to keep; a packet will be sent to, or received from, the
\* interface net_ops names when it says so (net_ops.c:289); set_ip_addr and
\* get_ip_addr, between the address and the net mask, work on one address.
Consistent(p) ==
  /\ Named(p) # {}
  /\ pc[p] = "set_flags" =>
       \A i \in Named(p) : flags[i] \cap Other = ifr[p] \cap Other
  /\ pc[p] \in {"sendto", "bind"} => name[index[p]] = iface[p]
  /\ pc[p] = "set_mask" => \A i \in Named(p) : addr[i] = given[p]
  /\ pc[p] = "get_mask" => \A i \in Named(p) : addr[i] = shown[p]

Renames(p)   == pc[p] = "set_name" /\ name' # name
Addresses(p) == pc[p] = "set_addr" /\ addr' # addr
Misflags(p)  == pc[p] = "set_flags" /\ flags' # flags /\ ~Consistent(p)

\* Whatever fails, a process makes no mistake of its own: what it knows stops
\* holding only when another process renames the interface, gives it an
\* address, or, so disturbed itself, the flags of another interface, between
\* two of its system calls.  It says which steps of others are a danger, not that
\* the code is safe from them: it has no protection.
OnlyOthersDisturb ==
  [][\A p \in Proc : Consistent(p) /\ ~Consistent(p)' =>
        \E q \in Proc \ {p} : Renames(q) \/ Addresses(q) \/ Misflags(q)]_vars

\* An interface is left with the mask of another address only by a process
\* so disturbed, even if set_ip_addr fails half way: the address goes first, and
\* brings the mask of its class (NONE), which stays if the second ioctl is refused.
Torn(i) == mask[i] \notin {addr[i], NONE}
PairTornByRace ==
  [][\A i \in If : ~Torn(i) /\ Torn(i)' =>
        \E p \in Proc : pc[p] = "set_mask" /\ ~Consistent(p)]_vars

\* set_if_state changes the flags it is asked for and no others, unless the
\* name it uses went from one interface to another between its two ioctls:
\* then it writes the flags of the first to the second.
OnlyAskedFlags ==
  [][\A i \in If : flags'[i] \cap Other # flags[i] \cap Other =>
        \E p \in Proc : pc[p] = "set_flags" /\ ~Consistent(p)]_vars
=============================================================================
