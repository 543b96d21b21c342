-------------------------------- MODULE Catalog ---------------------------------
(***************************************************************************)
(* The catalog of devices that the server offers firmware for: the tables  *)
(* device_catalog and user_device_flags as DeviceCatalogService changes    *)
(* them.  A profile is never changed or removed.  (Pairings, which         *)
(* api/devices.py writes itself, are in module Access.)                    *)
(***************************************************************************)
EXTENDS People

CONSTANT Slugs  \* of profiles

VARIABLES
  profile,  \* device_catalog, by slug, which is UNIQUE
  flag      \* user_device_flags, by account and profile

catalog == <<profile, flag>>

ProfileRows == [status : {"none", "draft", "published"}, maker : Users \cup {NoUser}]
NoProfile == [status |-> "none", maker |-> NoUser]

CatalogInit ==
  /\ profile = [s \in Slugs |-> NoProfile]
  /\ flag = [k \in Users \X Slugs |-> "none"]

-----------------------------------------------------------------------------
(* publish_profile *)
PublishProfile(u, s, status1) ==
  /\ Active(u) /\ IsAdmin(u) /\ profile[s].status = "none"
  /\ profile' = [profile EXCEPT ![s] = [status |-> status1, maker |-> u]]
  /\ UNCHANGED flag

(* What list_profiles and get_profile show: drafts are for administrators. *)
Visible(u) ==
  {s \in Slugs : profile[s].status \in (IF IsAdmin(u) THEN {"draft", "published"} ELSE {"published"})}

(* set_ownership *)
SetOwnership(u, s, has) ==
  /\ Active(u) /\ role[u] # "guest" /\ s \in Visible(u)
  /\ flag' = [flag EXCEPT ![<<u, s>>] = IF has THEN "has" ELSE "has_not"]
  /\ UNCHANGED profile

(* _resolve_user_id of api/devices.py, and its routes. *)
DevicesSession(u) == Active(u)
PublishRoute(u, s, status1) == DevicesSession(u) /\ PublishProfile(u, s, status1)
OwnershipRoute(u, s, has) == DevicesSession(u) /\ SetOwnership(u, s, has)

CatalogStep ==
  /\ \E u \in Users, s \in Slugs :
       \/ \E status1 \in {"draft", "published"} : PublishRoute(u, s, status1)
       \/ \E has \in BOOLEAN : OwnershipRoute(u, s, has)
  /\ UNCHANGED people

(* created_by_user_id ON DELETE RESTRICT, user_id ON DELETE CASCADE *)
CatalogReleases(u) == \A s \in Slugs : profile[s].maker # u
CatalogLoses(u) ==
  /\ flag' = [k \in Users \X Slugs |-> IF k[1] = u THEN "none" ELSE flag[k]]
  /\ UNCHANGED profile

-----------------------------------------------------------------------------
(* The types of the tables; whoever made a profile exists, and flags are   *)
(* of accounts that exist, for profiles that exist.                        *)
CatalogOK ==
  /\ profile \in [Slugs -> ProfileRows]
  /\ flag \in [Users \X Slugs -> {"none", "has", "has_not"}]
  /\ \A s \in Slugs : profile[s].status # "none" => Exists(profile[s].maker)
  /\ \A u \in Users, s \in Slugs : flag[u, s] # "none" =>
       Exists(u) /\ profile[s].status # "none"
=============================================================================
