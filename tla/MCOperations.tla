---------------------------- MODULE MCOperations ----------------------------
(***************************************************************************)
(* The parts that share no state with one another: backups, exports, the    *)
(* legacy migration, the connection mirror, the Postgres gateway, the Redis *)
(* users, the PivotDB import, the admission of new databases and the        *)
(* metrics scrape.  A behaviour moves one of them, its scene, and leaves    *)
(* the others in an initial state.                                          *)
(***************************************************************************)
EXTENDS ProtectPage, Exports, LegacyMigration, ConnectionMirror, PgGateway, RedisAcl, PivotImport,
        Admission, MetricsScrape, TLC

CONSTANTS r1, q1, a1, a2, d1, t1, t2, u1, u2, x1, p1, p2, m1, m2,
          g1, g2, g3, o1, o2, c1, c2,
          Scenes   \* those a configuration looks at

VARIABLE scene

vars == <<backupVars, protectVars, exportVars, legacyVars, mirrorVars, gatewayVars, aclVars, importVars,
          admissionVars, scrapeVars, scene>>

\* Up to renaming: the first schedule, whether the users share an address, which administrator is no more, and
\* whether a user is at home in the own workspace, in the other's, or in none.
OwnWorkspaces == [email |-> (u1 :> m1) @@ (u2 :> m2), admin |-> (p1 :> u1) @@ (p2 :> u2),
                  home |-> (u1 :> p1) @@ (u2 :> p2)]
PivotsToImport ==
    {s \in Pivots : /\ s.email[u1] = m1
                    /\ s.admin[p1] # x1 /\ (s.admin[p1] = u2 => s.admin[p2] = x1)
                    /\ <<s.home[u1], s.home[u2]>> \in {<<p1, p2>>, <<p1, p1>>, <<NoProfile, p1>>}}

MCOwnerOf == (g1 :> o1) @@ (g2 :> o1) @@ (g3 :> o2)
MCPrefix == [u \in Owners |-> u]

ABackups == /\ ProtectNext
            /\ UNCHANGED <<exportVars, legacyVars, mirrorVars, gatewayVars, aclVars,
                           importVars, admissionVars, scrapeVars>>
AnExports == /\ ExportsNext
             /\ UNCHANGED <<backupVars, protectVars, legacyVars, mirrorVars, gatewayVars, aclVars,
                            importVars, admissionVars, scrapeVars>>
ALegacy == /\ LegacyNext
           /\ UNCHANGED <<backupVars, protectVars, exportVars, mirrorVars, gatewayVars, aclVars,
                          importVars, admissionVars, scrapeVars>>
AMirror == /\ MirrorNext
           /\ UNCHANGED <<backupVars, protectVars, exportVars, legacyVars, gatewayVars, aclVars,
                          importVars, admissionVars, scrapeVars>>
AGateway == /\ GatewayNext
            /\ UNCHANGED <<backupVars, protectVars, exportVars, legacyVars, mirrorVars, aclVars,
                           importVars, admissionVars, scrapeVars>>
AnAcl == /\ AclNext
         /\ UNCHANGED <<backupVars, protectVars, exportVars, legacyVars, mirrorVars, gatewayVars,
                        importVars, admissionVars, scrapeVars>>
AnImport == /\ ImportNext
            /\ UNCHANGED <<backupVars, protectVars, exportVars, legacyVars, mirrorVars, gatewayVars,
                           aclVars, admissionVars, scrapeVars>>
AnAdmission == /\ AdmissionNext
               /\ UNCHANGED <<backupVars, protectVars, exportVars, legacyVars, mirrorVars, gatewayVars,
                              aclVars, importVars, scrapeVars>>
AScrape == /\ ScrapeNext
           /\ UNCHANGED <<backupVars, protectVars, exportVars, legacyVars, mirrorVars, gatewayVars,
                          aclVars, importVars, admissionVars>>

Init ==
    /\ scene \in Scenes
    /\ pivot \in IF scene = "pivot" THEN PivotsToImport ELSE {OwnWorkspaces}
    /\ ImportInit /\ (scene # "pivot" => keyFits /\ accounts = {})
    /\ ProtectInit /\ (scene # "backups" => ~pageOpen)
    /\ backupJob.schedule = CHOOSE s \in CronValid : TRUE
    /\ ExportsInit /\ (scene # "exports" => whole)
    /\ LegacyInit
    /\ scene # "legacy" => wish = [scope |-> Databases, drop |-> TRUE, same |-> FALSE]
    /\ GatewayInit
    /\ scene # "gateway" => script = <<"startup">> \o Queries /\ ~patient /\ ~secure
    /\ AclInit /\ (scene # "acl" => activeRows = {})
    /\ MirrorInit
    /\ AdmissionInit /\ (\A r \in held : r.owner = o1)
    /\ scene # "admission" => held = {} /\ gateway
    /\ ScrapeInit /\ (scene # "scrape" => known = {})

Next ==
    /\ scene' = scene
    /\ \/ scene = "backups" /\ ABackups
       \/ scene = "exports" /\ AnExports
       \/ scene = "legacy" /\ ALegacy
       \/ scene = "mirror" /\ AMirror
       \/ scene = "gateway" /\ AGateway
       \/ scene = "acl" /\ AnAcl
       \/ scene = "pivot" /\ AnImport
       \/ scene = "admission" /\ AnAdmission
       \/ scene = "scrape" /\ AScrape

Spec == Init /\ [][Next]_vars

=============================================================================
