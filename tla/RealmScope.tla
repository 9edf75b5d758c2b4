----------------------------- MODULE RealmScope -----------------------------
(***************************************************************************)
(* Which names a realm covers, and which record a request that passed the  *)
(* check writes.                                                           *)
(*                                                                         *)
(* A name is the sequence of its labels; the empty one is the apex of a    *)
(* zone, written "" or "@".  Text that ends with a dot and a name has that *)
(* name's labels last and at least one, possibly empty, before them.  Both *)
(* sides of every comparison are in lower case.                            *)
(***************************************************************************)
EXTENDS Naturals, Sequences

CONSTANT Labels  \* what split('.') makes of a name

Hostnames == Seq(Labels)
Types == {"host", "subdomain", "subdomain_only"}
Realms == [type : Types, value : Hostnames, domain : Hostnames]

\* hostname.endswith('.' + suffix)
EndsWith(name, suffix) ==
    /\ Len(name) > Len(suffix)
    /\ SubSeq(name, Len(name) - Len(suffix) + 1, Len(name)) = suffix

get_fqdn(realm) == realm.value \o realm.domain

matches_domain(realm, domain) == domain = realm.domain

matches_hostname(realm, hostname) ==
    LET fqdn == get_fqdn(realm)
    IN CASE realm.type = "host"           -> hostname = fqdn
         [] realm.type = "subdomain"      -> hostname = fqdn \/ EndsWith(hostname, fqdn)
         [] realm.type = "subdomain_only" -> EndsWith(hostname, fqdn) /\ hostname # fqdn

\* A record name that ends with its zone is taken for a complete one.
Complete(zone, name) == name = zone \/ EndsWith(name, zone)

_resolve_fqdn(zone, name) ==
    IF name = << >> THEN zone
    ELSE IF Complete(zone, name) THEN name ELSE name \o zone

\* The part of check_permission that is about names.
check_permission(realm, domain, record_name) ==
    /\ matches_domain(realm, domain)
    /\ matches_hostname(realm, _resolve_fqdn(domain, record_name))

\* The provider takes a record's name as relative to the zone.
Written(zone, name) == name \o zone

\* The last two labels are taken for the zone.
parse_hostname(hostname) ==
    [domain |-> SubSeq(hostname, Len(hostname) - 1, Len(hostname)),
     record |-> SubSeq(hostname, 1, Len(hostname) - 2)]

\* A DDNS update of a name that passes the check.
ddns_granted(realm, hostname) ==
    /\ Len(hostname) >= 2
    /\ LET parsed == parse_hostname(hostname)
       IN check_permission(realm, parsed.domain, parsed.record)

-----------------------------------------------------------------------------
\* What a realm is for: its own name, the names below it, or both.
Covers(realm, hostname) ==
    \E n \in 0 .. Len(hostname) :
        /\ SubSeq(hostname, n + 1, Len(hostname)) = get_fqdn(realm)
        /\ realm.type = "host" => n = 0
        /\ realm.type = "subdomain_only" => n > 0

\* Of a record name that does not repeat its zone, the check tells exactly
\* whether the provider will put the record under the realm (check_permission).
CheckIsExact(realm, zone, name) ==
    name = << >> \/ ~Complete(zone, name) =>
        (check_permission(realm, zone, name)
            <=> zone = realm.domain /\ Covers(realm, Written(zone, name)))

\* A DDNS update writes the name it was asked for, and is granted exactly to
\* the realms that cover it, as long as their zone has two labels; a realm of
\* another zone is never granted one (parse_hostname).
DdnsIsExact(realm, hostname) ==
    LET parsed == parse_hostname(hostname)
    IN /\ Len(hostname) >= 2 => Written(parsed.domain, parsed.record) = hostname
       /\ Len(realm.domain) # 2 => ~ddns_granted(realm, hostname)
       /\ /\ Len(realm.domain) = 2
          /\ Len(hostname) >= 2
          /\ parsed.record = << >> \/ ~Complete(parsed.domain, parsed.record)
          => (ddns_granted(realm, hostname) <=> Covers(realm, hostname))
=============================================================================
