----------------------------- MODULE MCCommands -----------------------------
(* Command lines for TLC.                                                  *)
EXTENDS Commands

(* The default regions and zone, and one that is nobody's default.         *)
MCPlaces == {"lon1", "fr-par-1", "eu-west-1", "us-central1-a", "elsewhere"}

MCZones == {"fr-par-1", "elsewhere"}

(* A credential in one place, in none, in several, and where one source    *)
(* hides another.                                                          *)
MCSources ==
  [file : {Unset, "value"}, flag : BOOLEAN, env : BOOLEAN]
    \cup [file : {"blank", "unreadable"}, flag : {TRUE}, env : BOOLEAN]

NoSource == [file |-> Unset, flag |-> FALSE, env |-> FALSE]

No == {FALSE}

(* All lines of some providers; flags that neither command reads for them  *)
(* are left unset.                                                         *)
LinesFor(providers, zones, secrets, accounts, vpcs) ==
  [provider : providers, region : {Unset, Empty, "eu-west-1", "elsewhere"},
   zone : zones, access : MCSources, secret : secrets,
   account : accounts, vpc : vpcs, subnet : vpcs,
   session : IF vpcs = No THEN {Unset} ELSE {Unset, "unreadable"},
   tcp : {Unset, "true", "false"}, domains : BOOLEAN, issuer : BOOLEAN]

MCCreateLines ==
  LinesFor({"digitalocean", "linode", "hetzner", "vultr", "other"},
           {Unset}, {NoSource}, No, No)
    \cup LinesFor({"azure"}, {Unset}, {NoSource}, BOOLEAN, No)
    \cup LinesFor({"scaleway", "ovh"}, {Unset}, MCSources, BOOLEAN, No)
    \cup LinesFor({"ec2"}, {Unset}, MCSources, No, BOOLEAN)
    \cup LinesFor({"gce"}, {Unset, "elsewhere"}, {NoSource}, BOOLEAN, No)

=============================================================================
