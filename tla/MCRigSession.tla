---------------------------- MODULE MCRigSession ----------------------------
(* Small instance of RigSession: times of a few ticks, two generations.    *)
EXTENDS RigSession

MCSlotMillis == [mode \in {"Ft8", "Wspr"} |-> IF mode = "Ft8" THEN 2 ELSE 4]
MCStarts == {[utc |-> 1, monotonic |-> 0], [utc |-> 4, monotonic |-> 7]}
MCMaxMoves == [rig |-> 2, plan |-> 6]
MCOrigins == {0, 1}
MCJumps == {-4, -1, 2}

Endpoint(text, loopback) == [text |-> text, loopback |-> loopback]
Profile(id, downstream, service, mode) ==
  [revision |-> id, downstream |-> downstream, service |-> service, mode |-> mode]

(* Two profiles RigProfile::new accepts and two it refuses. *)
MCProfiles ==
  {Profile("p", Endpoint("rig", FALSE), Endpoint("local", TRUE), "Managed"),
   Profile("q", Endpoint("rig", FALSE), Endpoint("far", FALSE), "External"),
   Profile("q", Endpoint("rig", FALSE), Endpoint("far", FALSE), "Managed"),
   Profile("q", Endpoint("rig", FALSE), Endpoint("rig", FALSE), "External")}

Evidence(capability, status) == [capability |-> capability, status |-> status]

MCEvidenceLists ==
  {<<Evidence("Vfo", "RuntimeProbed"), Evidence("Ptt", "BackendClaimed")>>,
   <<Evidence("Vfo", "RuntimeProbed"), Evidence("Vfo", "Unsupported")>>}

MCRequirements == {<<"Vfo">>, <<"Vfo", "Ptt">>, <<"Split">>, <<"Vfo", "Vfo">>}
=============================================================================
