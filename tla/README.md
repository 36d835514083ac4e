# TLA+ models of tofu-postgres

tofu-postgres is a Terraform/OpenTofu provider that configures PostgreSQL
clusters on Debian hosts.  It keeps no daemon and no database of its own:
every resource operation is a short list of shell commands sent over `ssh`, and
what is known of the host is what `Read` parses back.  The models are about
what such an operation can rely on when connections are reset, deadlines
expire, commands are repeated or go on as orphans, other people change the same
host, and Terraform's refresh - plan - apply loop is driven again and again.

Source paths below are relative to `src/internal/`.

## 1. Inventory

| Component | State | Operations | Correct when |
|---|---|---|---|
| SSH transport and command lists (`postgres/ssh.go`, `postgres/client.go`) | temporary identity files; the place of each operation in its list and retry loop; what runs on the host | `Client.Run`, `SSHClient.Run` (retry loop), `runOnce`, `identityFile`, `RunCommands` | commands happen in order, a list stops at its first error, only reset connections are retried, every operation ends, no key file outlives its ssh process |
| `postgres_config` (`provider/config_resource.go`, `postgres/config.go`) | declared keys, recorded state, `conf.d` drop-in, managed block of `pg_hba.conf`, what the server runs with | Create, Update, Read, Delete, ImportState; write drop-in, rewrite block, reload or restart | success means in effect; an empty plan is no lie; repeated runs settle |
| managed block of `pg_hba.conf` (`postgres/pghba.go`) | `pg_hba.conf`, one temporary file, running shells | render, parse, the cat - awk - printf - mv pipeline | operator lines survive; one block; what was written is read back |
| streaming bring-up (`postgres/streaming.go`, `mode.go`, `conninfo.go`, `provider/cluster_node_resource.go`) | datadirs, `standby.signal`, lines of `postgresql.auto.conf`, server up or down, recorded role and primary | primary commands, standby commands (stop, guarded wipe and base backup, start) | a copy of the cluster always remains; success leaves a standby; repeated applies converge; a healthy standby is never wiped |
| repmgr bring-up (`postgres/repmgr.go`) | as above, the nodes repmgr knows, where repmgrd is enabled | primary: role, database, register, repmgrd; standby: stop, guarded clone, start, register, repmgrd; witness | as above; a registered node is a standby, and the acting primary is not wiped, while repmgrd fails over and re-points nodes by itself |
| Patroni bring-up (`postgres/patroni.go`) | `patroni.yml`, the systemd drop-in, the packaged unit, the datadir with `patroni.dynamic.json`, the DCS | write configuration and drop-in, take the datadir over (stop, disable, empty), enable, reload | what Patroni holds is never wiped; one owner of the datadir; success means that Patroni runs with the declared configuration |
| `postgres_cluster` (`provider/cluster_resource.go`) | a record in the Terraform state only | validation of mode and DCS | a Patroni node is not applied without a DCS |
| `postgres_database`, `postgres_role` (`provider/database_resource.go`, `role_resource.go`, `postgres/sql.go`) | declared object, recorded object, object on the server, taint | Create, Update, Delete, Read, ImportState, each one `psql` statement and a read-back | nothing created is forgotten; a compliant object is not dropped; repeated runs converge |
| `postgres_grant` (`provider/grant_resource.go`, `postgres/sql.go`) | declared list, recorded list, privileges per object | REVOKE ALL + GRANT, REVOKE, union read-back, collapse to `ALL` | success is exactly what is declared; destroy leaves nothing; repeated runs converge |
| `postgres_package`, `postgres_service` (`provider/package_resource.go`, `service_resource.go`, `postgres/inventory.go`) | installed and held package; unit enabled, running, and with which settings; recorded hold and restart triggers | apt and systemctl commands, read-back | a recorded hold holds; an empty plan is true of the unit; no restart without need; repeated runs end |
| provider configuration, helpers, path names (`provider/provider.go`, `common.go`, `postgres/paths.go`, `main.go`) | none beyond the shared client | - | - |

How they interact.  All resources share one `Client` and through it the
transport; Terraform runs their operations concurrently.  They share the host:
`postgres_config` and the HA bring-ups edit the same cluster's files and reload
or restart the same server, grants of one role share tables.  No lock protects
any of this.  The transport's contract to its callers is deliberately weak - *at
least once, in order, stop at the first error* - so every caller has to
tolerate that a command was executed twice, or is still executing.

What is hard here, and drove the choice of properties (the full list, by line,
is under `hazards` in `PROJECT.json`):

* a reset connection after the command took effect, then a repeat of it: `CREATE`
  is not idempotent, the `pg_hba.conf` rewrite uses one temporary file name;
* a deadline (45 s by default) that kills ssh but not what runs on the host, a base backup for example;
* a failure between two commands: file written but not reloaded, revoked but not
  granted, datadir emptied but not cloned;
* three copies of a setting (state, file, running server), of which `Read` sees two;
* guards that read a trace of the past (`grep 'host=...'`) as if it were the present, or
  look for a file that appears some time later (`patroni.dynamic.json`);
* other actors with a will of their own: repmgrd and Patroni fail over between
  and during applies, unattended upgrades restart servers;
* success that says little: `systemctl enable --now` of a unit that is skipped, `|| true`.

## 2. Modules

| Module | Models | What to look at |
|---|---|---|
| `CommandList` | abstract specification: what `RunCommands` promises to a resource operation | `Begin`, `Complete`, `Ack`, `Fail`; orphans and repeats allowed, order and stop-at-first-error required |
| `SshTransport` | `ssh.go` + `client.go`, any number of callers | implements `CommandList` by the mapping `Phase`, `Acked`, `Begun`, `Finished` at its end |
| `SshTransport_proofs` | theorems about it, the refinement included | section 5 |
| `ConfigResource` | `postgres_config` in the refresh - plan - apply loop | commands with their effects; attempts that fail before, after or in the middle of one, and writes that end late |
| `ConfigResource_proofs` | theorems about it | section 5 |
| `PgHbaRewrite` | the shell pipeline of `pghba.go`, step by step | opens up the one command `ConfigResource` calls "rewrite pg_hba block" |
| `PgHbaRewrite_proofs` | theorems about it | section 5; `Splice` |
| `StreamingHA` | the bring-up with physical replication on several nodes over many applies | clone shells with a life of their own |
| `RepmgrHA` | extends `StreamingHA` by registration, witnesses, and repmgrd, which promotes and re-points standbys | who may be wiped when the roles move by themselves |
| `RepmgrHA_proofs` | theorems about `StreamingHA` and `RepmgrHA` | section 5 |
| `PatroniNode` | `postgres_cluster` and `postgres_cluster_node` in Patroni mode, every command, and Patroni's own steps | the takeover's guard, its orphans and reboots |
| `PatroniNode_proofs` | theorems about it | section 5 |
| `LogicalObject` | `postgres_database` and `postgres_role` | Terraform's plan derived from the schema's plan modifiers |
| `LogicalObject_proofs` | theorems about it | section 5 |
| `GrantResource` | `postgres_grant`, one or two grants of one role | two statements per apply, union read-back |
| `GrantResource_proofs` | theorems about it | section 5 |
| `HostServices` | `postgres_package` and `postgres_service` | what `Read` sees of either, and when the server is restarted |
| `HostServices_proofs` | theorems about it | section 5 |
| `MC*` | values of the constants for TLC | |

### How state and actions correspond to the code

**SshTransport.**  `pc`, `idx` and `att` are the program counter and the loop
variables of `RunCommands` (`client.go:50`) and `SSHClient.Run`
(`ssh.go:111`).  One attempt is `StartSsh`, then the host's `ExecBegins` and
`ExecEnds...`, then one of `Succeeds`, `Reset` (stderr matches `transientSSH`),
`Rejected` (any other `SSHError`) or `Deadline` (the context kills ssh; the
error is no `SSHError`).  A reset, a rejection and a deadline may each hit at
any moment of the attempt, also after the command ended.  `RunOnceReturns` is
what holds on every return path of `runOnce`: the deferred cleanup removes the
key file, and a command still running becomes an orphan.  `Kill` is the death
of the provider process.  Output, argument vectors and quoting are left out.
`ran`, `completed` and `resets` are history; no action reads them.

**ConfigResource.**  `buildConfigCommands` gives the list of commands, `Effect`
what each does to the drop-in, the block and the running server.  An attempt that
fails (`AttemptFails`) has had no effect, its whole effect, or has cut the file
it was writing (`CutFiles`); the command is repeated or the apply ends.  What
the host may not have ended yet is in `late`, and `LateWrite` ends it at any
time: between the commands of a later apply, or after its success, with the
configuration it was built from.  `reconcile` is `Read`: only attributes that are
set are refreshed.  A late write takes effect in one step; two rewrites that
interleave step by step are the subject of `PgHbaRewrite`.

**PgHbaRewrite.**  `Cat`, `Awk`, `Printf` and `Mv` are the four steps of the
command built in `pghba.go:88-96`.  A shell whose connection is lost reads a prefix of its
input and goes on.  `Strip` is the awk program, `ParseHBABlock` the read-back.
A rule with its columns is one value.

**StreamingHA.**  `op[n]` walks the standby's command list stop, clone, start (`.pgpass` left out);
the clone is a shell of its own (`wipe`, then `copy`) that becomes an orphan
when the provider stops waiting.  `CloneGuard` is the `grep 'host=<primary>'` of
`streaming.go:161-166`, with its prefix matching (`10.0.0.2` is found in
`10.0.0.20`).  `Clone` copies the primary's `postgresql.auto.conf` as
`pg_basebackup -R` does.  Failovers, crashes and operators starting servers are the environment.
`acting` is the node last promoted; the user may, but need not, declare it.

**RepmgrHA.**  In mode `repmgr` a standby's list goes on after the start with
`Register` (`repmgr standby register`, which needs a server in recovery and a
primary that repmgr knows) and `EnableDaemon`.  The primary's list
(`RegisterPrimary`) and the witness's (`ApplyWitness`) are one step each, with a
second action each for a list that stops part way (`RegisterPrimaryFails`,
`ApplyWitnessFails`).  `FailOver` and `Follow` are repmgrd, with its quorum
over the registered nodes (`Electorate`); they are external and modelled by
what `repmgr.conf` asks for: `failover='automatic'`, `promote_command`,
`follow_command`.

**PatroniNode.**  `op[n].pc` walks `PatroniCommands`: configuration, drop-in,
daemon-reload, takeover, enable, reload (the apt command is left out).  The
takeover is a shell of its own with two stages, stop-and-disable and wipe;
`TakenOver` is its test for `patroni.dynamic.json`, made once at its beginning.
`Starts` is why `enable --now` may succeed without a running Patroni: the
packaged unit's condition is not met without the drop-in, and without a DCS Patroni
ends at once.  `Cut` is a connection lost in the middle of `cat >`: `patroni.yml` is
left with revision 0, a drop-in is left cut; `dropin` is the drop-in on disk, `known` what
systemd has loaded of it, which a reboot or daemon-reload brings together.  `PatroniDies`
ends a running Patroni at any moment, and nothing but an apply or a reboot starts it again.
`Bootstrap`, `CopyLeader`, `CacheWritten` and `Elected` are
Patroni; a copy of the leader's datadir contains the leader's
`patroni.dynamic.json`.  A node is applied after its cluster, from which it
takes `dcs_reference` (`examples/ha_patroni.tf`).

**HostServices.**  `unit.with` is what the running server was started with;
`declared.trigger` stands for the settings in the files, as `restart_triggers` is
meant to.  `pkgOp` is the package's list (install, mark), `op` a run of the
service: `Read`, plan, then enable and act.  `Unseen` and `Unread` name what makes
host and state part without a plan showing it.

**LogicalObject.**  `Read`, `Plan...`, `Executed`, `ReadBack...` follow one
resource operation; `MustReplace` and `LocaleDiffers` are the schema's
`RequiresReplace` and Computed attributes as Terraform evaluates them.
`ConnectionLost` summarises the transport: the statement had no effect, its
effect, or goes on late, and it is sent again or given up.  `Accepted` is the server's
part: CREATE of what exists fails, and so does DROP of what is `used` (a database
with sessions, a role that owns something) for as long as it is, which others decide.

**GrantResource.**  `Sent` is the statement an operation has reached
(`grantCommands`, `Delete`), `After` its effect on the privileges per table,
`Observed` the union that `ReadGrantSQL` selects, `Reconcile` the collapse to `ALL`.
A change of object type is a replacement, a change of `objects` an update.  A list
without tables is one that nothing validates: its statements have no object and
fail (`Runs`), and its `Read` is not narrowed to any table (`Observed`).

### History variables

`events` (in `ConfigResource`: `interrupted`, `touched` and `overtaken`) record that
something happened that the code gives no protection against: an overlap of two executions, an
edit by somebody else in the middle of an apply, a late statement or write.  A property
that holds only without such an event names it.  What the event then does is
either the subject of a run that expects a violation, or listed in the hazards.

## 3. Runs

Passing runs:

| Run | Config | Shows |
|---|---|---|
| `ssh_transport` | `MCSshTransport.cfg` | Order, retry, exactly-once without resets, key file lifetime, every operation ends, and the refinement of `CommandList` |
| `config_resource` | `MCConfigResource.cfg` | A successful apply is in effect; an empty plan too, unless an apply was interrupted or the files were changed behind the provider; repeated applies settle, and where the plan can never be empty the configuration is in effect, whatever cut or late writes came before |
| `pg_hba_rewrite` | `MCPgHbaRewrite.cfg` | Executions that do not overlap keep every operator line and one block, through cut input and crashes |
| `streaming_ha` | `MCRepmgrHA.cfg` | Streaming pairs and repmgr clusters: a copy of the cluster remains, healthy standbys and the acting primary are not wiped, a quiet apply and every repmgr apply succeed only with a standby, and one failover heals |
| `patroni_node` | `PatroniNode.cfg` | One owner of the datadir, Patroni's data is not wiped by later applies, success means running with the declared configuration, bring-up converges, over cut files and a Patroni that dies |
| `host_services` | `HostServices.cfg` | Holds hold, empty plans are true of the unit, no needless restart, runs converge |
| `logical_object` | `LogicalObject.cfg` | Nothing created is forgotten, what complies is not dropped, runs converge over late statements and refusals that are taken back |
| `grant_resource` | `MCGrantResource.cfg` | Success is exact, destroy leaves nothing, runs converge: three reconfigurations of one grant, and two grants at once |

Runs in which TLC finds a statement of the repository violated:

| Run | Statement | What happens |
|---|---|---|
| `standby_guard` | `streaming.go:152-156`: wiped and cloned unless already a standby of this primary | after a failover and a failback the `host=` line is left over; the clone is skipped, a server that is no standby is started, and the apply reports success |
| `pg_hba_overlap` | `pghba.go:10-12`: operator lines untouched | a repeated rewrite overlaps its orphan, their shared temporary file is renamed twice, and `pg_hba.conf` holds the block only |
| `database_owner` | `database_resource.go:65-66`: the owner is mutable in place | an undeclared locale is planned as unknown, which forces the replacement of the database |
| `patroni_wipe` | `patroni.go:157-159`: a re-apply never wipes a running cluster | the apply that started Patroni fails at its last command; the next one finds no `patroni.dynamic.json` yet and empties the datadir while Patroni bootstraps it |

The models of the findings run under the same actions as the passing runs; only
the bounds are smaller, so that the counterexample is short.

Four more statements of the repository do not describe the code; the models
show it without a run of their own:

* `README.md:43-44` and `DESIGN.md:79-81` promise that importing and then
  planning "yields **zero diff**".  The import of `postgres_config` sets the id
  only and `Read` refreshes only attributes that are set, so every declared key
  differs (`ConfigResource!ImportState`).  The import of a database leaves its locale
  null, and one that declares `lc_collate` is replaced by the next apply though it
  complies (`LogicalObject!ImportState`, `MustReplace`).  A service imported without
  triggers differs when some are declared, and is restarted by the apply.
* `grant_resource.go:65-66` says that the resource "Converges to exactly the
  declared privilege set".  A change of `objects` or `schema` is an update in
  place which never revokes on the tables left (`GrantResource!MustReplace`).
* `DESIGN.md:159-160` says that "no separate client package is installed" for the
  DCS; `patroni.go:113-129` installs one.  (`NodeSpec.DCS` is never set by the
  resource, so it is always the etcd one.)
* `examples/service.tf:13` uses `postgres_config.pg.id` as the restart trigger,
  which never changes: no change of the settings restarts anything there.

### Bounds, and why they are enough

For the safety properties the bounds only matter to TLC: section 5 proves every one
of the passing runs' for all values of the constants.  For the liveness properties
they are the evidence there is.

* *Transport.*  Two callers, lists of two commands, two attempts instead of four.
  One reset and one repeat of each command is every way in which attempts
  differ: the loop treats attempts 1 to 3 alike, and 4 like the 2 of the model.
  Two commands are what "the next command" needs.
* *Config.*  One key of each context (reload, restart), four `pg_hba` lists; two
  edits of either side and one failed attempt, so that a failed apply can be
  followed by an edit of either side and by a successful one, and its write end
  during that one.  A key has one value or is unset: two values by which a late
  write and the declaration can differ.
* *pg_hba.*  Three executions: one cut, one crashed, one complete; one operator
  line, at either end, at any moment.
* *Streaming and repmgr.*  Four clusters in one run.  A streaming pair with two
  promotions (there and back), a crash, two failures and a host of an earlier cluster whose
  name extends a node's; the same pair with one promotion, one failure and one
  further apply of a node that is up; three repmgr nodes with two failovers and a
  crash, where one standby re-points while another is applied; two repmgr nodes and a
  witness, which gives repmgrd its quorum, with two crashes, two failovers and a failure.
* *Patroni.*  Two nodes, one edit of the cluster, one reboot or end of Patroni, one failure
  (a command that may leave its file cut, a lost connection, or an error the code ignores)
  at any moment.  Two nodes are
  enough for a leader and a copy, and for a wiped leader that nobody can copy.
* *Package and service.*  One trigger value or none, two edits or deletions, two
  failures, one interference: enough for a restart that takes effect, is lost and is then
  taken back.
* *Objects.*  Two owners, two locales, two edits (of the configuration, of the object, or of
  its use), two failures of which one can be retried.
* *Grants.*  Two tables, two privileges, four lists (one privilege, both in the
  wrong order, `ALL`, empty).  Three edits of one grant (declare, disturb, remove), or
  two grants with two edits; one lost connection.

`CHECK_DEADLOCK FALSE` is said for `PgHbaRewrite` (the number of executions is
bounded) and for `StreamingHA`, `RepmgrHA` and `PatroniNode` (with every bound used
and an empty plan nothing is left to happen).

### Fairness

* `SshTransport`: weak fairness of the provider's own steps per caller.  An operation is a goroutine
  that is never blocked: backoff sleeps are finite, and every attempt runs under a
  context with a deadline (`ssh.go:130`), so `Deadline` is enabled whenever ssh is
  alive.  Nothing is assumed of the host or the network.
* The resource modules: weak fairness of `Read`, plan, and the success of
  commands - "the user runs Terraform again and again, and a command that does
  not fail ends".  Failures, lost connections, late statements and edits are bounded and
  unfair: they need never happen and cannot happen for ever.  An orphan, a late statement or a
  late write need never end, and one that ends does so once.
* `StreamingHA` also assumes that a server that is down and has a usable datadir is started again.
  repmgrd (`FailOver`, `Follow`) need never act.
* `PatroniNode` also assumes that Patroni goes on with its loop on a node where it runs.

## 4. Properties worth reading first

* `SshTransport!PrefixCompleted` and `ImplementsCommandList`: the contract of
  the transport.  `RepeatsOnlyAfterReset`: a command that timed out is not repeated next to its orphan.
* `ConfigResource!AgreementIsInEffect`: exactly when an empty plan means that the server runs with what is declared.
  `Settles`: also that a plan that is never empty does no harm.
* `PgHbaRewrite!OperatorLinesKept`, `SuccessIsReadBack`.
* `StreamingHA!ClusterDataKept`, `StandbyNeverWiped`, `ActingKept`, `FailoverHeals`:
  what may be wiped, and that one failover ends with every replica on the new primary.
* `RepmgrHA!RegisteredIsStandby`: repmgr's registration refuses what streaming's
  bring-up lets pass after a failback, a second primary reported as a standby.
* `PatroniNode!PatroniDataKept`, `OneOwner`, `SuccessIsRunningConf`: the last holds
  only because cluster validation, drop-in, daemon-reload, enable and reload come together.
* `LogicalObject!NothingForgotten`, `CompliantIsKept`.
* `GrantResource!SuccessIsExact`, `DestroyLeavesNothing`, `Converges`.
* `HostServices!AgreementIsTrue`, `NoNeedlessRestart`: together they say how far the
  recorded triggers can stand for what the server runs with.

Each property of a passing run has a mutant in `PROJECT.json`: a plausible bug in
a definition (`X_...` next to `X`) under which TLC finds the property violated.

Two observations of `GrantResource` that its `Converges` has to exclude: `Read`
sees the union over the tables of a grant, so a table that lacks a privilege
another has is no difference, and this also happens without anybody else's help - a change to
fewer objects that fails between REVOKE and GRANT and is then taken back (`MoveFailed`).
And lists that are not sorted, that spell out the complete set, or that say `ALL
PRIVILEGES` are read back in another form (`Canonical`).

## 5. Proofs

Every type invariant, safety invariant and action property of the passing runs, and the
refinement, is a theorem, for every value of the constants.  Each proof module rests on an
inductive invariant, which TLC has checked within the bounds of the run, too.  Only liveness stays with TLC (at the end of this section).

### The transport

`SshTransport_proofs` proves, for every set of callers, every length of the lists and every
number of attempts (from `TransportAssumption` alone: both numbers are positive):

| Theorem | Statement |
|---|---|
| `TypeCorrect` | `Spec => []TypeOK`; in particular no attempt beyond `MaxAttempts` |
| `OrderIsKept` | `Spec => []PrefixCompleted` |
| `OnlyResetsRepeat` | `Spec => []RepeatsOnlyAfterReset` |
| `KeyFilesAreTemporary` | `Spec => []KeyFileLifetime` |
| `CleanIsExactlyOnce` | `Spec => []CleanSuccessIsExactlyOnce` |
| `TransportImplementsList` | `Spec => ImplementsCommandList` |

The first three need one inductive invariant.  That the attempt number stays in range needs
that only a loop with attempts left sleeps; that the order is kept needs that
the list index only advances past a command with a completed execution, and that no execution
is ahead of the index.  `Inv` collects this per caller: `PlaceInv` (what the
place says about the current execution), `LoopInv` (what the two loop counters
say about the past) and `HostInv` (what is known of every execution, orphans
included).  `TypeStep` uses `Inv`, `InvStep` uses `TypeOK`; `Invariance` puts
the two together.  An action of one caller leaves the facts of every other
alone (`InvOthers`), so each action's case is about its own caller.

`KeyInv` is inductive once the types are known; the work is in showing that the
cleanup of one operation touches no file of another (`KeyRemoved`).  `CleanInv`
says more than the property: a caller without resets has executed exactly a
prefix of its list, and where that prefix ends (`Reached`, `Passed`).

The refinement is a simulation.  `ExecBegins` maps to `Begin`, a completion
(awaited or of an orphan) to `Complete`, `Succeeds` to `Ack`, the ends with an
error and the death of the provider to `Fail`, everything else stutters.  It needs
`Inv` twice: `Ack` requires that the command it moves past has a completed execution, and
`Complete` that an orphan once began.

### Patroni

`PatroniNode_proofs` proves, for every set of nodes and any number of edits, failures and
reboots (from `PatroniAssumption`: the bounds are numbers, and `NoneIsNone`: None is no
node and no configuration):

| Theorem | Statement |
|---|---|
| `TypeCorrect` | `Spec => []TypeOK`; in particular a takeover is waited for exactly while its shell runs |
| `OneOwnerAlways` | `Spec => []OneOwner` |
| `DataKept` | `Spec => PatroniDataKept` |
| `SuccessMeansRunning` | `Spec => SuccessIsRunningConf` |

One inductive invariant carries all four.  `ListInv`: what the place in the list says about
the files on the node, and that a running Patroni is enabled with its drop-in loaded and a
configuration that names a DCS.  `OwnerInv`: once the datadir may be Patroni's (a shell is
about to empty it, `enable` is next, the unit is enabled, or `patroni.dynamic.json` is
there) the packaged unit is stopped *and* disabled; `OneOwner` by itself is not inductive,
because a reboot starts whatever is enabled.  `ShellInv`: a takeover shell, awaited or an
orphan, never coexists with a running Patroni unless the history tells why.  All three are
about one node, so each action is proved at its own node (`At`, `Becomes`) and `InvOthers`
gives the rest; `Reload`, which reaches every member, has a proof of its own.

### Streaming and repmgr

`RepmgrHA_proofs` proves, for any finite set of nodes, any declared clusters and any bounds of
the environment (from `StreamingAssumption`: None is no host, a cluster has a node
that is no witness, witnesses exist in mode `repmgr` only):

| Theorem | Statement |
|---|---|
| `StreamingTypes`, `RepmgrTypes` | `Spec => []TypeOK`, `RepmgrSpec => []RepmgrTypeOK` |
| `StreamingDataKept`, `RepmgrDataKept` | `Spec => []ClusterDataKept`, and the same of `RepmgrSpec` |
| `RepmgrStandbyNeverWiped` | `RepmgrSpec => StandbyNeverWiped` |
| `RepmgrActingKept` | `RepmgrSpec => ActingKept` |
| `RepmgrQuietSuccess` | `RepmgrSpec => QuietSuccessIsStandby` |
| `RepmgrRegistered` | `RepmgrSpec => RegisteredIsStandby` |

One invariant carries both specifications.  Three of its parts are about one node.
`ListInv`: the command list and the shells belong together.  `DirInv`: the
line of the primary a datadir follows is in its `postgresql.auto.conf`, which is why the
guard's `grep` protects every standby of the primary it names.  `DaemonInv`: what the
last commands of repmgr's list find.  `PrimaryInv` (nothing is at work on the declared
primary, and it has the data) gives `ClusterDataKept`, which by itself says nothing about
*which* node keeps the copy; `ActingInv` is the same for the node last promoted, whom
nothing touches as long as the declaration is not stale.  `QuietInv` describes a cluster to which
nothing has happened: every line and every copy is of the one primary.  A step at one
node is proved there; `OthersKeep` gives the rest.

Two things came out of it.  `StandbyNeverWiped` failed to be inductive at
`Follow`: repmgrd may also re-point a node on which an *abandoned* clone has passed
its guard and not yet wiped, which no run's bounds had reached; the action
records "repointed meanwhile" for both shells now.  And `ActingKept` holds with fewer exceptions
than it first had.

### postgres_config

`ConfigResource_proofs`, for any keys, values, rules, lists and bounds (from
`ConfigAssumption`: no key needs both a reload and a restart, the marks for "not
declared" are no values):

| Theorem | Statement |
|---|---|
| `ConfigTypes` | `Spec => []TypeOK` |
| `ConfigAgreementIsInEffect` | `Spec => []AgreementIsInEffect` |
| `ConfigSuccessIsInEffect` | `Spec => SuccessIsInEffect` |

The invariant is about the three copies of a setting.  `RecordedInv`: the state says what the files
have; `RunningInv`: the server runs with what the files have, except for a restart key
that left the drop-in.  Neither is true during an apply, whose commands change
one copy after another: `ApplyInv` says which list of commands is left (`ToWrite`,
`ToRewrite`, `ToCtl`) and what the files have by then, unless a late write has overtaken the
apply; then it says which commands are left and no more.  A late write that comes when no apply
runs is recorded as `touched`, which a later success clears only when nothing overtook it.

### The managed block of pg_hba.conf

`PgHbaRewrite_proofs`, for any rules and lists, any number of executions and of operator
lines (from `PgHbaAssumption`: the lists are nonempty sequences of rules, Missing is no file):

| Theorem | Statement |
|---|---|
| `PgHbaTypes` | `Spec => []TypeOK` |
| `PgHbaOperatorLinesKept` | `Spec => []OperatorLinesKept` |
| `PgHbaAtMostOneBlock` | `Spec => []AtMostOneBlock` |
| `PgHbaSuccessIsReadBack` | `Spec => SuccessIsReadBack` |

While executions do not overlap, the file is the operator's lines `q` with one block `b`
spliced in (`File`): nothing, a whole block anywhere, or one that was cut short, and then at
the end of the file.  The last clause is what the properties by themselves lack: behind a
block without its end marker awk would take operator lines for the block's.  On such files
`StripSplice` shows that the awk program takes out exactly the block, and `ParseSplice` that
the read-back scan returns exactly its rules.  `Holding` is what a running
execution has in its pipe, `Latest` that only the last one can be running.

`Strip`, `ParseHBABlock`, and in `GrantResource` `InOrder`, are recursive functions over the
prefixes of a sequence.  What they compute is proved by induction over the length, in the
form of `NatSetInduction`: the lengths for which the claim holds are a set with 0 and the
successor of each of its members, hence all of Nat, by the least-number principle of
`WellFoundedInduction`.  (The library's own induction theorems, and its theorems about
folds, take operators as parameters, which the provers cannot instantiate.)

### Database and role

`LogicalObject_proofs`, for any owners and locales, attempts and bounds (from
`LogicalAssumption`: the defaults exist, the marks are no values, at least one attempt):

| Theorem | Statement |
|---|---|
| `LogicalTypes` | `Spec => []TypeOK`; in particular no statement is sent more than `MaxAttempts` times |
| `LogicalNothingForgotten` | `Spec => []NothingForgotten` |
| `LogicalCompliantIsKept` | `Spec => CompliantIsKept` |

`OpInv` ties a statement in progress to the configuration and the state it was planned from;
`StateInv` says when a recorded locale may be missing, which is when a plan replaces;
`PlannedInv` and `DropInv` carry what the plan read through to the DROP and its retries;
`LateInv` is about statements that nobody waits for any more.  A refused DROP changes nothing
and ends the run, so it has to keep `StateInv` only.

### Grants

`GrantResource_proofs`, for any resources, tables, privileges and lists (from `GrantAssumption`:
the order of privileges names each once, `ALL` is none of them):

| Theorem | Statement |
|---|---|
| `GrantTypes` | `Spec => []TypeOK`; a list from a read-back names no privilege twice |
| `GrantSuccessIsExact` | `Spec => SuccessIsExact` |
| `GrantDestroyLeavesNothing` | `Spec => DestroyLeavesNothing` |

REVOKE and GRANT are two statements.  `GrantInv`: between them the role holds on the
resource's objects nothing that the GRANT does not give.  `ReadInv`: what a destroy or a
replacement is about to revoke is all there is, because it was read and nothing has come in
between.  `ApartInv`: two resources touch different objects unless the history says that they
share one; without it one resource's step would disturb the other's facts.

### Package and service

`HostServices_proofs`, for any triggers and bounds (from `HostAssumption`: None and
"stopped" are no triggers):

| Theorem | Statement |
|---|---|
| `HostTypes` | `Spec => []TypeOK` |
| `HostHoldIsKept` | `Spec => []HoldIsKept` |
| `HostAgreementIsTrue` | `Spec => AgreementIsTrue` |
| `HostNoNeedlessRestart` | `Spec => NoNeedlessRestart` |

`SinceInv` is the heart: a running server has the settings of the recorded triggers, or the
history names one of the ways to miss that.  An empty plan compares the declaration with the state only, and
`SinceInv` is what relates the state to the server; `PlanInv` carries it from the `Read` to the
end of the run, which a failed `Read` spoils, and `RestartInv` keeps the decision to restart tied to
what it was made from.

### Only model-checked

Liveness under fairness is beyond the prover: `EveryOperationEnds`, `Settles`,
`FailoverHeals`, `BringUpConverges` and `Converges` (of `LogicalObject`, `GrantResource` and
`HostServices`) are TLC's, within the bounds of section 3.  The statements of the
runs that expect a violation are false, and have counterexamples instead.

## 6. Not modelled

* `postgres_cluster`: Delete and ImportState, which touch the state only.  The
  record matters in Patroni mode only, and is modelled there.
* Of a cluster node: a change of `ha_mode` or of the version in place (neither
  forces a replacement; what the old mode left on the host stays), an import (it
  sets names only, so the next apply is a whole bring-up), and a node whose own
  `dcs_reference` does not come from the cluster, which nothing validates.
* `bootstrap.dcs` of `patroni.yml` (`synchronous_mode`): Patroni reads it once, at bootstrap.
* The Patroni unit is assumed not to run before `enable --now` (Debian's condition
  on `/etc/patroni/config.yml` is not met), and `systemctl disable` to keep the
  packaged unit from starting at boot.
* Versions: a package's version and the major version of a cluster do not change.
* Import of a grant: it sets role, database and type only, and the schema and
  the objects of the following `Read` are empty.
* A declaration that names a node primary which does not run as one: the user
  declares a running primary in the model (`DeclarePrimary`), and what the bring-ups do
  to a cluster whose declared primary is empty or stale is not covered.
* The Delete of a cluster node and of `postgres_config`, which touch the state only
  (`postgres_config`'s is modelled, for the import that may follow).
* Credentials (`.pgpass`, the replication password, the write-only role
  password), server parameters of the HA modes, connection strings, the text of
  commands and SQL, quoting, path names, help texts.
* PostgreSQL itself beyond the effect of each statement; the contents of the
  database (a datadir is a complete copy or is not).

## 7. Plan

Done, in this order: `SshTransport` with `CommandList` and its theorems,
`ConfigResource`, `PgHbaRewrite`, `StreamingHA`, `LogicalObject`, `GrantResource`,
`RepmgrHA`, `PatroniNode`, `HostServices`, and the theorems about each of them.

Next:

1. `PgHbaRewrite` under the retry loop of `SshTransport`: when the transport's repeats
   can overlap the pipeline, and that without resets they do not (`CleanIsExactlyOnce`
   is the fact of the transport that this needs).
2. The command lists of `ConfigResource` and `PatroniNode` as instances of
   `CommandList`, so that at-least-once, in order, stop at the first error is the only
   thing they assume of the transport, and is stated once.

## 8. Running it

    tlc -workers 2 -config MCSshTransport.cfg SshTransport
    tlc -workers 2 -config MCRepmgrHA.cfg MCRepmgrHA
    tlc -workers 2 -config PatroniNode.cfg PatroniNode
    tlapm SshTransport_proofs.tla
    tlapm ConfigResource_proofs.tla
    tlapm PgHbaRewrite_proofs.tla
    tlapm RepmgrHA_proofs.tla
    tlapm PatroniNode_proofs.tla
    tlapm LogicalObject_proofs.tla
    tlapm GrantResource_proofs.tla
    tlapm HostServices_proofs.tla

The module and configuration of every run are listed in `PROJECT.json`.  With two workers no run takes longer than four minutes.
