--------------------------- MODULE PortAllocation ---------------------------
(***************************************************************************)
(* The choice of the host ports of an environment (ports.rs).  A service   *)
(* name is a number in the order of the names, and 0 is the empty one.     *)
(* The program adds and multiplies in 32 bits and converts the sum to 16;  *)
(* up to the last slot nothing leaves the 32 bits.                         *)
(***************************************************************************)
EXTENDS Integers, Sequences, FiniteSets

MaxPort == 65535  \* u16::MAX
EmptyName == 0

Refused(error) == [kind |-> error, slot |-> 0, ports |-> <<>>]
Allocation(slot, ports) == [kind |-> "ok", slot |-> slot, ports |-> ports]

ValidateInputs(base, stride, names) ==
  LET first == {i \in DOMAIN names :
                  names[i] = EmptyName \/ \E j \in 1..(i - 1) : names[i] = names[j]}
  IN CASE base = 0           -> "base"
       [] base # 0 /\ stride = 0 -> "stride"
       [] base # 0 /\ stride # 0 /\ stride < Len(names) -> "small"
       [] base # 0 /\ stride # 0 /\ stride >= Len(names) /\ first # {} ->
            IF names[CHOOSE i \in first : \A j \in first : i <= j] = EmptyName
            THEN "empty" ELSE "duplicate"
       [] OTHER -> "ok"

\* The ports of a slot, by the place of the service.
PortsForSlot(base, stride, names, slot) ==
  [i \in DOMAIN names |-> base + slot * stride + i - 1]

Overflows(ports) == \E i \in DOMAIN ports : ports[i] > MaxPort

\* Mutant: the last slot may begin at the last port.
LastSlotAnywhere(base, stride, names) == (MaxPort - base) \div stride

MaxSlot(base, stride, names) == (MaxPort - base - (Len(names) - 1)) \div stride

\* What becomes of a slot: leased ports are skipped unprobed, the others are
\* probed in the order of the names until one is not free.
Examine(names, ports, used, probe) ==
  LET bad == {i \in DOMAIN names : probe[ports[i]] # "free"}
  IN IF \E i \in DOMAIN ports : ports[i] \in used THEN "next"
     ELSE IF bad = {} THEN "take"
     ELSE IF probe[ports[CHOOSE i \in bad : \A j \in bad : names[i] <= names[j]]] = "busy"
     THEN "next" ELSE "fail"

\* The search ends with the first slot that is taken or cannot be decided.
AllocatePorts(base, stride, names, used, probe) ==
  LET invalid  == ValidateInputs(base, stride, names)
      Ports(s) == PortsForSlot(base, stride, names, s)
      stops(s) == Overflows(Ports(s)) \/ Examine(names, Ports(s), used, probe) # "next"
      ends     == {s \in 0..MaxSlot(base, stride, names) : stops(s)}
      slot     == CHOOSE s \in ends : \A t \in ends : s <= t
  IN CASE invalid # "ok"                             -> Refused(invalid)
       [] invalid = "ok" /\ names = <<>>             -> Allocation(0, <<>>)
       [] invalid = "ok" /\ names # <<>> /\ base + Len(names) - 1 > MaxPort -> Refused("overflow")
       [] OTHER ->
            IF ends = {} THEN Refused("none")
            ELSE IF Overflows(Ports(slot)) THEN Refused("overflow")
            ELSE IF Examine(names, Ports(slot), used, probe) = "take"
            THEN Allocation(slot, Ports(slot)) ELSE Refused("probe")

-----------------------------------------------------------------------------
\* Whatever the base, stride and names, the ports allocated are TCP ports, one
\* for each service, which nobody leases and nobody listens on (allocate_ports).
Sound(base, stride, names, used, probe) ==
  LET a == AllocatePorts(base, stride, names, used, probe)
  IN a.kind = "ok" =>
       /\ DOMAIN a.ports = DOMAIN names
       /\ \A i \in DOMAIN names :
            /\ a.ports[i] \in 1..MaxPort
            /\ a.ports[i] \notin used /\ probe[a.ports[i]] = "free"
            /\ \A j \in DOMAIN names : a.ports[i] = a.ports[j] => i = j

\* The allocation is the lowest place there is: no block of the stride below it,
\* or none at all when no slot is available, is within the ports and free.  An
\* overflow is reported only when not even the first block fits.
Lowest(base, stride, names, used, probe) ==
  LET a    == AllocatePorts(base, stride, names, used, probe)
      n    == Len(names)
      free == {k \in 0..((MaxPort - base) \div stride) :
                 LET first == base + k * stride
                 IN /\ first + n - 1 <= MaxPort
                    /\ \A p \in first..(first + n - 1) : p \notin used /\ probe[p] = "free"}
  IN base > 0 /\ stride > 0 /\ n > 0 =>
       /\ a.kind = "ok"       => a.slot \in free /\ \A k \in free : a.slot <= k
       /\ a.kind = "none"     => free = {}
       /\ a.kind = "overflow" => base + n - 1 > MaxPort

\* Environments of one project in different slots share no port.
Disjoint(base, stride, names) ==
  ValidateInputs(base, stride, names) = "ok" =>
    \A s, t \in 0..2 : s # t =>
      \A i, j \in DOMAIN names :
        PortsForSlot(base, stride, names, s)[i] # PortsForSlot(base, stride, names, t)[j]
=============================================================================
