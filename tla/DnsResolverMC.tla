--------------------------- MODULE DnsResolverMC ---------------------------
(***************************************************************************)
(* DnsResolver with the challenge name, two names that spell addresses and *)
(* names that exist only in part or not at all.                            *)
(***************************************************************************)
EXTENDS DnsResolver, TLC

CONSTANTS acme, challenge, ns, ns_2, host, dept, dotted, soa, v1, v2

AcmeName == <<<<acme, challenge>>>>
NsName == <<<<ns>>>>
NsName2 == <<<<ns_2>>>>
ServerIp == <<127, 0, 0, 1>>

HostName == <<<<host, 192, 0, 2, 10>>>>        \* host-192-0-2-10
DeptName == <<<<dept>>>>                       \* dept
HostInDept == <<<<192, 0, 2, 10, host>>, <<dept>>>>  \* 192-0-2-10-host.dept

SomeLabels == {AcmeName, HostName, DeptName, HostInDept}
AllOctets == 0 .. 255
=============================================================================
