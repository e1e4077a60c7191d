------------------------------- MODULE Bundle -------------------------------
(***************************************************************************)
(* From the course that was built to what its learners work in: the files  *)
(* materialized for its workflow, their validation, the package that is    *)
(* published, its certification and the workspace seeded from it           *)
(* (services/artifact_materializer.py, bundle_validation.py,               *)
(* publish_snapshot_service.py, publish_learner_certification_service.py,  *)
(* learner_package_runtime.py).                                            *)
(*                                                                         *)
(* A new workflow's spec does not say what learners edit, nothing that is  *)
(* left in the code adds it, and without it nothing is materialized: the   *)
(* files are those of courses of before.  Who materializes when, and what  *)
(* overlaps, is in Workflow and CourseRun; here is what is in the files.   *)
(***************************************************************************)
EXTENDS TaskSpec

CONSTANTS
  OldCourses,   \* courses whose workflows were authored while workflows were
                \* executed: the row of the spec and the deliverables' slugs
  Workspaces,   \* the workspaces their authors' work may have been left in
  MaxEdits      \* bound on what a learner does to files

VARIABLES
  spec,       \* the workflow's task_agent_spec
  slugs,      \* the deliverable_slug of each of the course's deliverables
  snap,       \* its workspace_snapshot, whose directory may be gone
  disk,       \* the files in the bundle's directory
  bundle,     \* the file list of the workflow's materialized_bundle
  package,    \* the files of the publish snapshot's learner package
  lessons,    \* its deliverables
  cert,       \* what its certification came to
  workspace,  \* the files of a learner's workspace
  edits       \* how often the learner has touched them

bundleVars == <<spec, slugs, snap, disk, bundle, package, lessons, cert, workspace, edits>>

allVars == <<designVars, bundleVars>>

-----------------------------------------------------------------------------
(* Files *)

\* The runtime protocol, of which two files stand for the four; what runs the
\* checks; the learner's own sources and the manifest of their dependencies.
Runtime == {"Dockerfile", "run.sh"}
Scripts == {"check_visible.sh", "check_hidden.sh"}
Sources == {"app", "go.mod"}

\* Where a file is: in the starter all deliverables share, or in that of one
\* (of is its number, else 0), among the checks or with the grader.
File(at, of, name, by, for) == [at |-> at, of |-> of, name |-> name, by |-> by, for |-> for]

\* Where, without what is in it.
Place(f) == [at |-> f.at, of |-> f.of, name |-> f.name]

Places(S) == {Place(f) : f \in S}

\* ArtifactVisibility: what is with the grader is private.
Public(S) == {f \in S : f.at # "grader"}

\* What learners are not to see.
Hidden == {"manifest", "hidden"}

NoFiles == {}
NoPackage == {}
NoSpec == [parts |-> <<>>]
NoSnap == [root |-> None, starter |-> {}, authored |-> {}, manifests |-> <<>>, visible |-> {}, hidden |-> {}]

\* The snapshot of a workspace that is gone.
Swept ==
  [root |-> "lost", starter |-> snap.starter, authored |-> snap.authored, manifests |-> snap.manifests,
   visible |-> snap.visible, hidden |-> snap.hidden]

\* The files of some names as the templates make them.
FromTemplate(at, of, names) == {File(at, of, n, "template", 0) : n \in names}

\* What a starter has of its own: build_task_agent_starter_files, without what
\* belongs to one deliverable.
OneDeliverables == Hidden \cup {"visible"}
StarterNames == Runtime \cup Scripts \cup {"tasks.json"}

\* What an author's workspace has, those of a starter at least; and what its
\* manifest may declare: all of the runtime's files or none, unless it is marked
\* otherwise.  No file of a course has the name of one that belongs to a
\* deliverable or to the course itself.
ASSUME BundleAssumption ==
  /\ MaxEdits \in Nat
  /\ \A old \in OldCourses :
       /\ IsRow(old.row)
       /\ DepsOf(old.row).fixtures \cap (OneDeliverables \cup {"README.md"}) = {}
  /\ \A w \in Workspaces :
       /\ StarterNames \cup w.authored \subseteq w.starter
       /\ \A d \in DOMAIN w.manifests :
            LET m == w.manifests[d]
            IN  /\ m.runtime = {} \/ Runtime \subseteq m.runtime \/ m.wholeRuntime
                /\ (m.repo \cup m.editable) \cap (OneDeliverables \cup {"README.md"}) = {}

-----------------------------------------------------------------------------
(* Materialization *)

\* The workspace an author left is looked at only where it is not the bundle's
\* own directory.
Usable == snap.root = "own"

\* The learner's files as a manifest has them: those that were authored or, if it
\* names none, those that it says learners edit.
RepoPaths(m) == IF m.repo # {} THEN m.repo ELSE m.editable

\* starter_materialization_paths: what of an authored starter is carried over, by
\* the deliverable's manifest alone, the fixtures too, or, where there is none, by
\* the spec.
CarriedPaths(d) ==
  LET m == snap.manifests[d]
      named == IF d \in DOMAIN snap.manifests
               THEN RepoPaths(m) \cup m.fixtures \cup m.dependencies \cup (IF m.runtime # {} THEN m.runtime ELSE Runtime)
               ELSE EditableOf(spec, d) \cup spec.deps.fixtures \cup Runtime
  IN  named \cup Scripts \cup {"tasks.json"} \cup OneDeliverables

\* A slip: what belongs to one deliverable is carried over with the rest.
CarriedAll == CarriedPaths(1) \cap snap.starter

\* _shared_workspace_paths, by the first deliverable's manifest: not what belongs
\* to one deliverable.
Carried == (CarriedPaths(1) \ OneDeliverables) \cap snap.starter

FromWorkspace(of, names) ==
  {File("starter", of, n, IF n \in snap.authored THEN "author" ELSE "template", 0) : n \in names}

\* _materialize_shared_codebase: the starter all deliverables share.
SharedStarter ==
  {File("starter", 0, "course.json", "template", 0)}
    \cup (IF Usable THEN FromWorkspace(0, Carried) ELSE FromTemplate("starter", 0, StarterNames \cup spec.deps.fixtures))

\* A slip: checks that were authored are the first deliverable's.
ChecksOfFirst(d) ==
  LET Script(at, name, authored) ==
        IF Usable /\ 1 \in authored THEN File(at, d, name, "author", 1) ELSE File(at, d, name, "template", 1)
  IN  {File("checks", d, "README.md", "template", d),
       Script("checks", "visible", snap.visible), Script("grader", "hidden", snap.hidden),
       File("grader", d, "manifest", IF Usable /\ d \in DOMAIN snap.manifests THEN "author" ELSE "template", d)}

\* What each deliverable has for itself; checks that were not authored are the
\* template's, made for the first deliverable.
ChecksOf(d) ==
  LET Script(at, name, authored) ==
        IF Usable /\ d \in authored THEN File(at, d, name, "author", d) ELSE File(at, d, name, "template", 1)
  IN  {File("checks", d, "README.md", "template", d),
       Script("checks", "visible", snap.visible), Script("grader", "hidden", snap.hidden),
       File("grader", d, "manifest", IF Usable /\ d \in DOMAIN snap.manifests THEN "author" ELSE "template", d)}

\* _materialize_per_deliverable_starters: where deliverables share nothing, all
\* of a starter's files are public, the grader's among them.
OwnStarter(d) ==
  {File("starter", d, "README.md", "template", d)}
    \cup (IF Usable THEN FromWorkspace(d, CarriedPaths(d) \cap snap.starter)
          ELSE FromTemplate("starter", d, StarterNames \cup OneDeliverables \cup spec.deps.fixtures))

\* materialize_run. The lists of files are in manifest.json too.
Materialized ==
  FromTemplate("course", 0, {"README.md", "course_outline.md"})
    \cup (IF spec.structure.shared THEN SharedStarter \cup UNION {ChecksOf(d) : d \in 1..Len(spec.parts)}
          ELSE UNION {OwnStarter(d) : d \in 1..Len(spec.parts)})

\* _expected_public_artifacts; a Dockerfile is not one of them.
Expected ==
  LET starter == StarterNames \ {"Dockerfile"}
  IN  Places(FromTemplate("course", 0, {"README.md", "course_outline.md"}))
        \cup (IF spec.structure.shared
              THEN Places(FromTemplate("starter", 0, starter))
                     \cup UNION {Places(FromTemplate("checks", d, {"README.md", "visible"})) : d \in 1..Len(spec.parts)}
              ELSE UNION {Places(FromTemplate("starter", d, starter \cup {"README.md", "visible", "manifest"})) : d \in 1..Len(spec.parts)})

\* What validate_materialized_bundle asks of a starter whose manifest says that
\* it was authored.
AuthoredIsWhole(d, files) ==
  LET m == snap.manifests[d]
      starter == {f \in files : f.at = "starter" /\ f.of = (IF spec.structure.shared THEN 0 ELSE d)}
      Has(n) == \E f \in starter : f.name = n
      Authored(n) == \E f \in starter : f.name = n /\ f.by = "author"
  IN  /\ m.wholeRuntime => \A n \in Runtime : n \in m.runtime /\ Authored(n)
      /\ m.wholeRepo => \A n \in EditableOf(spec, d) : n \in m.repo /\ Has(n)

\* A slip: a starter that is said to be authored is not looked into.
ValidByNames(files) == Expected \subseteq Places(Public(files))

\* validate_materialized_bundle, what it asks of which files there are.
ValidBundle(files) ==
  /\ Expected \subseteq Places(Public(files))
  /\ Usable => \A d \in DOMAIN snap.manifests \cap (1..Len(spec.parts)) : AuthoredIsWhole(d, files)

\* WorkflowService.materialize_run: a spec that is not valid is refused before a
\* file is written.  A bundle may also be refused for what is in its files - a
\* README that a model judges not to be of the domain, or that names what is not
\* there, a source with the runtime's internals - one time and not another: it
\* reads well or not.  When it is refused it has replaced the old one's files.
Materialize(overwrite, readsWell) ==
  /\ spec # NoSpec /\ Validated(spec)
  /\ overwrite \/ disk = NoFiles
  /\ disk' = Materialized
  /\ bundle' = IF readsWell /\ ValidBundle(Materialized) THEN Places(Materialized) ELSE bundle
  /\ UNCHANGED <<designVars, spec, slugs, snap, package, lessons, cert, workspace, edits>>

\* The directory the author worked in is swept away.  The workflow's row goes on
\* naming it; it is looked for before it is read.
WorkspaceLost ==
  /\ Usable
  /\ snap' = Swept
  /\ UNCHANGED <<designVars, spec, slugs, disk, bundle, package, lessons, cert, workspace, edits>>

-----------------------------------------------------------------------------
(* Publication *)

\* A slip: what the grader has is in the package too.
SeedAnything(files) == {f \in files : f.at # "course" /\ f.name # "README.md"}

\* _workspace_seed_files of a shared codebase: the first deliverable's package
\* has the starter and the checks of all.
SeedFiles(files) == {f \in Public(files) : f.at # "course" /\ f.name # "README.md"}

\* What seed_workspace_from_snapshot adds to the package's files: one document
\* for the course and one for each deliverable.
Documents ==
  {File("starter", 0, n, "template", 0) : n \in {"README.md", "workspace_seeded.txt", "settings.json"}}
    \cup {File("review", d, "README.md", "template", d) : d \in 1..Len(spec.parts)}

\* create_snapshot, of a course whose deliverables share a workflow: the files
\* of the bundle's list are read where they are now. certify_snapshot passes a
\* partial starter unseen; one that is empty it seeds into a workspace, where it
\* asks for two documents that seeding does not write.
Publish(certifies) ==
  /\ spec # NoSpec /\ package = NoPackage
  /\ spec.structure.shared
  /\ bundle # NoFiles /\ bundle \subseteq Places(disk)
  /\ LET packed == SeedFiles({f \in disk : Place(f) \in bundle})
         seeded == {f.name : f \in packed \cup Documents}
     IN  /\ cert' = IF ~certifies \/ spec.deps.starter = "partial" THEN "skipped"
                    ELSE IF {"README.md", "project_brief.md", "deliverables.md"} \subseteq seeded THEN "passed" ELSE "failed"
         /\ package' = IF cert' = "failed" THEN package ELSE packed
         /\ lessons' = IF cert' = "failed" THEN lessons ELSE Lessons(spec, slugs)
  /\ UNCHANGED <<designVars, spec, slugs, snap, disk, bundle, workspace, edits>>

-----------------------------------------------------------------------------
(* The learner's workspace *)

\* A file that is there already stays as it is.
Seeded(files) == files \cup {f \in package \cup Documents : Place(f) \notin Places(files)}

SeedWorkspace ==
  /\ package # NoPackage
  /\ workspace' = Seeded(workspace)
  /\ UNCHANGED <<designVars, spec, slugs, snap, disk, bundle, package, lessons, cert, edits>>

\* The learner writes a file, or deletes one.
LearnerEdits ==
  /\ workspace # NoFiles /\ edits < MaxEdits
  /\ edits' = edits + 1
  /\ \E f \in workspace :
       \/ workspace' = workspace \ {f}
       \/ workspace' = (workspace \ {f}) \cup {[f EXCEPT !.by = "learner"]}
  /\ UNCHANGED <<designVars, spec, slugs, snap, disk, bundle, package, lessons, cert>>

-----------------------------------------------------------------------------

\* A brief, or a course of before, as its row is read: no brief is at work then.
BundleInit ==
  /\ \/ DesignInit /\ spec = NoSpec /\ slugs = <<>> /\ snap = NoSnap
     \/ /\ stage = "old" /\ brief = [goal |-> {}] /\ plan = NoPlan /\ course = NoCourse
        /\ \E old \in OldCourses : spec = Upgraded(old.row) /\ slugs = old.slugs
        /\ snap \in {NoSnap} \cup Workspaces
  /\ disk = NoFiles /\ bundle = NoFiles /\ package = NoPackage /\ lessons = <<>> /\ cert = None /\ workspace = NoFiles /\ edits = 0

BundleNext ==
  \/ DesignNext /\ UNCHANGED bundleVars
  \/ \E overwrite, readsWell \in BOOLEAN : Materialize(overwrite, readsWell)
  \/ WorkspaceLost
  \/ \E certifies \in BOOLEAN : Publish(certifies)
  \/ SeedWorkspace \/ LearnerEdits

BundleSpec == BundleInit /\ [][BundleNext]_allVars

-----------------------------------------------------------------------------
(* Properties *)

\* What an author's workspace leaves out of the spec's fixtures: those that it has
\* not, and those that its manifest does not list.
Dropped ==
  IF snap.root \in {"own", "lost"}
  THEN {n \in spec.deps.fixtures :
          n \notin snap.starter \/ (1 \in DOMAIN snap.manifests /\ n \notin snap.manifests[1].fixtures)}
  ELSE {}

\* What learners are given is the whole of the public bundle and nothing of the
\* grader's: a package has every script that its tasks run, the fixtures that its
\* author's workspace did not drop and the checks of each deliverable, its own
\* where its author wrote some; while the author's workspace is there it has the
\* author's files and not the templates'.  All that although the files are those
\* of the latest bundle, which may have been refused, and the list of them that of
\* the latest one that was not (artifact_materializer.py's
\* _shared_workspace_paths, workflow_service.py's materialize_run and
\* _workspace_seed_files).  And no workspace seeded from it has more.
FilesAreRight ==
  /\ \A f \in package \cup workspace : f.at # "grader" /\ f.name \notin Hidden
  /\ \A n \in StarterNames \cup (spec.deps.fixtures \ Dropped) : \E f \in package : f.at = "starter" /\ f.name = n
  /\ \A d \in 1..Len(spec.parts) : \E f \in package : f.at = "checks" /\ f.of = d /\ f.name = "visible"
  /\ \A f \in package : f.by = "author" /\ f.at = "checks" => f.for = f.of
  /\ Usable /\ 1 \in DOMAIN snap.manifests =>
       \A n \in RepoPaths(snap.manifests[1]) \cap snap.authored : \E f \in package : f.name = n /\ f.by = "author"

\* What a deliverable is tested by can be tested: it is asked of an endpoint that
\* is published, and there is something to edit for it, whatever the age of the
\* row it was read from (spec_validation.py's validate_task_agent_spec).
TasksCanBeDone ==
  LET published == {e.path : e \in spec.endpoints}
  IN  /\ "/health" \in published
      /\ Editable(spec) # {}
      /\ \A i \in DOMAIN lessons :
           /\ lessons[i].gate # {}
           /\ \A c \in lessons[i].gate : c.path \in published

\* A row that was read is not changed by being read again
\* (postgres_store.py's _normalize_task_agent_spec_payload).
ReadsTheSame == spec # NoSpec => Upgraded(spec) = spec

PackageIsSound ==
  /\ ReadsTheSame
  /\ package # NoPackage => FilesAreRight /\ TasksCanBeDone

\* A grade is told in the names learners know: the runner's report of a
\* submission, which has the spec's names, becomes one area for each deliverable
\* of the package, and no test of it is lost or counted twice on the way
\* (learner_package_runtime.py's remap_assignment_report_to_deliverables).
GradesComeHome ==
  package # NoPackage =>
  LET areas == DOMAIN spec.parts
      TestsOf(i) == [passed |-> i - 1, total |-> i]
      report == [i \in areas |-> TestsOf(i)]
      remapped == Remapped(spec, lessons, report)
      Passed(i) == report[i].passed
      PassedAt(name) == remapped[name].passed
  IN  /\ DOMAIN remapped = {lessons[i].slug : i \in DOMAIN lessons}
      /\ MapThenSumSet(PassedAt, DOMAIN remapped) = MapThenSumSet(Passed, areas)
      /\ \A i \in areas :
           (\A j \in areas \ {i} : lessons[j].slug # lessons[i].slug) => remapped[lessons[i].slug] = report[i]
=============================================================================
