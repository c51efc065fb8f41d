----------------------------- MODULE NatConfig -----------------------------
(* config nat (config/nat.py).  Addresses are numbers, so that a pool is a *)
(* range.  A command that finds its entry, or no room for it, says so and  *)
(* writes nothing.                                                         *)
EXTENDS L3Config

CONSTANTS
  NatIps, NatPorts, TwiceIds, \* TwiceIds: twice_nat_id, 0 when not given
  Pools, Bindings, MaxPools, MaxBindings

NatTables == {"STATIC_NAT", "STATIC_NAPT", "NAT_POOL", "NAT_BINDINGS", "NAT_GLOBAL"}

\* The address an entry translates: the local one for source NAT.
Translated(d, t, k) == IF d[t][k].nat_type = "snat" THEN d[t][k].local_ip ELSE k[1]
isIpOverlappingWithAnyStaticEntry(d, ip, t) == \E k \in Keys(d, t) : Translated(d, t, k) = ip
isOverlappingWithAnyDynamicEntry(d, ip) ==
  \E p \in Keys(d, "NAT_POOL") : ip \in d["NAT_POOL"][p].lo .. d["NAT_POOL"][p].hi

getTwiceNatIdCountWithStaticEntries(d, id, t) ==
  Cardinality({k \in Keys(d, t) : d[t][k].twice_nat_id = id})
\* Bindings whose pool does not exist are not counted, nor is the one named.
getTwiceNatIdCountWithDynamicBinding(d, id, except) ==
  Cardinality({b \in Keys(d, "NAT_BINDINGS") \ except :
                 /\ Has(d, "NAT_POOL", d["NAT_BINDINGS"][b].nat_pool)
                 /\ d["NAT_BINDINGS"][b].twice_nat_id = id})
\* Static entries are counted in the table of the new entry only.
TwiceIdFree(t, id) ==
  id = 0 \/ getTwiceNatIdCountWithStaticEntries(db, id, t)
            + getTwiceNatIdCountWithDynamicBinding(db, id, {}) <= 1

ToTranslate(global, local, nat_type) == IF nat_type = "snat" THEN local ELSE global
StaticEntry(local, lport, nat_type, id) ==
  [local_ip |-> local, local_port |-> lport, nat_type |-> nat_type, twice_nat_id |-> id]
SameStatic(t, k, local, lport) ==
  Has(db, t, k) /\ db[t][k].local_ip = local /\ db[t][k].local_port = lport

\* nat_type "" is stored as no field, which is read as dnat.
add_basic(global, local, nat_type, id) ==
  LET ip == ToTranslate(global, local, nat_type)
  IN  /\ ~isIpOverlappingWithAnyStaticEntry(db, ip, "STATIC_NAPT")
      /\ ~isOverlappingWithAnyDynamicEntry(db, ip)
      /\ ~SameStatic("STATIC_NAT", <<global>>, local, 0)
      /\ TwiceIdFree("STATIC_NAT", id)
      /\ db' = SetEntry(db, "STATIC_NAT", <<global>>, StaticEntry(local, 0, nat_type, id))

\* Mutant: entries without ports are not looked at.
AddNaptUnchecked(proto, global, gport, local, lport, nat_type, id) ==
  LET k == <<global, proto, gport>>
  IN  /\ ~SameStatic("STATIC_NAPT", k, local, lport)
      /\ TwiceIdFree("STATIC_NAPT", id)
      /\ db' = SetEntry(db, "STATIC_NAPT", k, StaticEntry(local, lport, nat_type, id))

AddNapt(proto, global, gport, local, lport, nat_type, id) ==
  LET k == <<global, proto, gport>>
  IN  /\ ~isIpOverlappingWithAnyStaticEntry(db, ToTranslate(global, local, nat_type), "STATIC_NAT")
      /\ ~SameStatic("STATIC_NAPT", k, local, lport)
      /\ TwiceIdFree("STATIC_NAPT", id)
      /\ db' = SetEntry(db, "STATIC_NAPT", k, StaticEntry(local, lport, nat_type, id))
add_tcp(global, gport, local, lport, nat_type, id) ==
  AddNapt("TCP", global, gport, local, lport, nat_type, id)
add_udp(global, gport, local, lport, nat_type, id) ==
  AddNapt("UDP", global, gport, local, lport, nat_type, id)

RemoveStatic(t, k, local, lport) == SameStatic(t, k, local, lport) /\ db' = DelEntry(db, t, k)
remove_basic(global, local) == RemoveStatic("STATIC_NAT", <<global>>, local, 0)
remove_tcp(global, gport, local, lport) ==
  RemoveStatic("STATIC_NAPT", <<global, "TCP", gport>>, local, lport)
remove_udp(global, gport, local, lport) ==
  RemoveStatic("STATIC_NAPT", <<global, "UDP", gport>>, local, lport)
remove_static_all == db' = DelTable(DelTable(db, "STATIC_NAT"), "STATIC_NAPT")

add_pool(p, lo, hi) ==
  /\ lo <= hi
  /\ ~(Has(db, "NAT_POOL", p) /\ db["NAT_POOL"][p] = [lo |-> lo, hi |-> hi])
  /\ Cardinality(Keys(db, "NAT_POOL")) # MaxPools
  /\ \A k \in Keys(db, "STATIC_NAT") : Translated(db, "STATIC_NAT", k) \notin lo..hi
  /\ db' = SetEntry(db, "NAT_POOL", p, [lo |-> lo, hi |-> hi])
add_binding(b, p, id) ==
  /\ Field(db, "NAT_BINDINGS", b, "nat_pool", "") # p
  /\ Cardinality(Keys(db, "NAT_BINDINGS")) # MaxBindings
  /\ id = 0 \/ getTwiceNatIdCountWithStaticEntries(db, id, "STATIC_NAT")
                 + getTwiceNatIdCountWithStaticEntries(db, id, "STATIC_NAPT")
                 + getTwiceNatIdCountWithDynamicBinding(db, id, {b}) <= 1
  /\ db' = SetEntry(db, "NAT_BINDINGS", b, [nat_pool |-> p, nat_type |-> "snat", twice_nat_id |-> id])

Bound(d, p) == \E b \in Keys(d, "NAT_BINDINGS") : d["NAT_BINDINGS"][b].nat_pool = p
remove_pool(p) == Has(db, "NAT_POOL", p) /\ ~Bound(db, p) /\ db' = DelEntry(db, "NAT_POOL", p)
remove_pools == db' = DelEntries(db, "NAT_POOL", {p \in Keys(db, "NAT_POOL") : ~Bound(db, p)})
remove_binding(b) == Has(db, "NAT_BINDINGS", b) /\ db' = DelEntry(db, "NAT_BINDINGS", b)
\* remove_bindings names a class that does not exist: it raises NameError.

add_nat_interface(i, zone) == IfHas(db, i) /\ db' = ModIf(db, i, [nat_zone |-> zone])
remove_nat_interface(i) == IfHas(db, i) /\ db' = ModIf(db, i, [nat_zone |-> 0])
\* Every interface entry is replaced by the zone alone.
remove_interfaces ==
  db' = [t \in DOMAIN db |->
           IF t \notin InterfaceTables \ {"VLAN_SUB_INTERFACE"} THEN db[t]
           ELSE [k \in DOMAIN db[t] |-> IF Len(k) = 1 THEN [nat_zone |-> 0] ELSE db[t][k]]]

SetNat(f, v) == db' = ModEntry(db, "NAT_GLOBAL", "Values", One(f, v))
nat_feature(mode) == SetNat("admin_mode", mode)
nat_set_timeout(f, seconds) ==
  f \in {"nat_timeout", "nat_tcp_timeout", "nat_udp_timeout"} /\ SetNat(f, seconds)
DefaultTcpTimeout == 86400
nat_reset_timeout(f) ==
  SetNat(f, CASE f = "nat_timeout" -> 600 [] f = "nat_tcp_timeout" -> DefaultTcpTimeout
              [] f = "nat_udp_timeout" -> 300)

---------------------------------------------------------------------------
\* An address translated by a static entry without ports is translated by
\* no entry with ports and lies in no pool, in whichever order they came.
NatDisjoint ==
  \A k \in Keys(db, "STATIC_NAT") :
    LET ip == Translated(db, "STATIC_NAT", k)
    IN  /\ ~isIpOverlappingWithAnyStaticEntry(db, ip, "STATIC_NAPT")
        /\ ~isOverlappingWithAnyDynamicEntry(db, ip)
===========================================================================
