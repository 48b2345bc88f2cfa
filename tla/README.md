# A verification project for Access Core

Access Core is a Next.js portal through which people ask for VPN access and
administrators grant it. One Node process serves every HTTP handler; PostgreSQL
(through Prisma) holds the rows; OpenVPN servers are reached over SSM, SSH or an
agent, one shell command at a time; the pages run in browsers that keep copies of
all that. Paths below are those of the repository.

The handlers are `async` functions. Between two `await`s a handler runs alone;
at every `await` (a database statement or a remote command) any other handler
may run, and what it does may invalidate what the first one has read. There are
hardly any transactions, no row locks and no unique constraints on the rows that
matter most. A page is the same thing once more: between the fetch it sends and
the answer it gets, its user goes on and other answers arrive. The order in which
handlers and answers interleave, fail or get lost is where the program can go
wrong and where its unit tests, which mock the database and run one handler at a
time, hardly reach. That is what the modules here are about.

    on the server
      AccessRequests ──INSTANCE──> RequestLifecycle   abstract: status graph
      CcdSync
      OperationQueue ──INSTANCE──> ServerLock         abstract: one lock a server
      VpnCertificates
      GoogleSync
      ServerConfig
    who may come in
      Sessions
      Guards ──EXTENDS───> TotpCodes
             ──INSTANCE──> RateLimit
    in the browser
      Pages ──INSTANCE──> RequestPage, UsersPage, UserPage, SyncPage,
                          NetworkPage, AdminPage, ProfilePage,
                          GroupPage, SignIn

`MCAccessRequests`, `MCCcdSync`, `MCOperationQueue`, `MCVpnCertificates`,
`MCGoogleSync`, `MCServerConfig`, `MCSessions`, `MCGuards` and `MCPages` add
symmetry sets and structured constants; each of their `.cfg` files is one
question asked of a specification. `AccessRequestsProofs`, `CcdSyncProofs`,
`ConfigAndGoogleProofs`, `GuardsAndQueueProofs`, `SessionsProofs`,
`VpnCertificatesProofs`, `PagesProofs` and, upon the latter, `ShownPagesProofs`
hold the theorems.
`PROJECT.json` lists the runs, the mutants, the lines every definition stands
for, the hazards and the theorems.

## 1. Inventory

For each part: its state, its operations, whom it meets, what is hard about it
and what makes it correct. The last line says where it stands.

### Access requests
* Code: `src/app/api/access-requests/**`, `src/lib/access-lifecycle.ts`.
* State: `AccessRequest` rows (status PENDING, PROCESSING, APPROVED, FAILED,
  REJECTED, EXPIRED), the `VpnUser` row of the (email, server), its group
  memberships, the portal account, the certificates on the server.
* Operations: `POST` (a lifecycle pass over the email, three concurrent checks,
  insert), `PATCH` (claim, look the user up, create it, add groups, generate a
  certificate, read its expiry, commit, audit; or reject), `DELETE` (the owner
  cancels), the lifecycle pass (expires old and orphaned requests).
* Meets: certificates (`cert-service.ts`), the administrators' user routes.
* Hard: provisioning is nine awaits with a catch block that must undo what was
  done; reviewers, owners and the pass act on the same row; a stop loses every
  handler; a command reported as failed may have run.
* Correct when: a claimed request gets an outcome; a rejection is final; a valid
  certificate is one the database knows of; the statuses follow one life cycle.
* Modelled: `AccessRequests`, `RequestLifecycle`.

### Client configuration (CCD), temporary access and drift
* Code: `src/lib/temporary-access.ts`, `ccd-generator.ts`, `drift-detection.ts`,
  the temporary-access, push and group routes.
* State: memberships, `TemporaryAccess` grants with an expiry date, CIDR blocks
  of groups, `VpnUser.ccdSyncStatus`; one file per user on the server.
* Operations: grant and revoke temporary access, the expiry pass nearly every
  handler starts with, pushes to one user, to selected users, to a group, to
  all; reconcile drift; change groups, CIDR blocks and memberships.
* Hard: the file is written from content generated some awaits earlier; the
  database changes first and is taken back when the server refuses; the pass
  runs from many handlers at once.
* Correct when: SUCCESS means the file is the one the database asks for; expired
  access comes off the server; what was revoked stays revoked; a user has one
  valid grant of a group.
* Modelled: `CcdSync`.

### Operation queue and sync jobs
* Code: `src/lib/operation-queue.ts`, `startup-reconciler.ts`, the retry route.
* State: `SyncJob` rows (PENDING, IN_PROGRESS, SUCCESS, FAILED).
* Operations: enqueue (insert, check, start or refuse, run, record), jobs
  inserted as IN_PROGRESS by the push to all users and the Google
  synchronisation, retry, reconciliation of stale jobs.
* Hard: check and start are two statements; a stop leaves IN_PROGRESS rows that
  block their server; the reconciler writes by id.
* Correct when: one job a server at a time; outcomes are final; every job whose
  handler lives gets one.
* Modelled: `OperationQueue`, `ServerLock`.

### VPN users and certificates, and their import
* Code: `src/lib/cert-service.ts`, `import-service.ts`, `src/app/api/users/**`,
  `servers/[id]/import`.
* State: `VpnUser` (isEnabled, certStatus, certExpiresAt, the flag of a leaver),
  the files and index of easyrsa, the revocation list the VPN server reads.
* Operations: create, update, delete, generate, revoke, regenerate, generate in
  bulk, resolve, dismiss or clear a flag, push a file, discover the names a
  server knows and import them.
* Meets: access requests (the same certificates), Google (the flags).
* Hard: a command and a row that must agree without a transaction; revocation is
  two commands (`revoke`, `gen-crl`) and a copy; deleting the files of a
  certificate makes it impossible to revoke; a status is written that was read
  at the start.
* Correct when: the certificate the server accepts is the one on record; REVOKED
  on record means refused by the server; a deleted user leaves none.
* Modelled: `VpnCertificates`.

### Google group synchronisation
* Code: `src/lib/sync-engine.ts`, `google-workspace.ts`, `google-mappings/**`,
  `sync/google`.
* State: mappings of Google groups to VPN groups, memberships with a source, the
  flag on users who left, common names.
* Operations: `runGoogleSync`, create and delete a mapping; administrators create
  and delete users, add, remove, reassign, dismiss a flag.
* Hard: one snapshot per mapping, used many statements later; a group that could
  not be fetched counts as empty; two syncs at once; a mapping, a group or a user
  deleted meanwhile.
* Correct when: a sync that succeeds has added and flagged whom it should have, or
  names whom it could not; nobody is flagged who was a member all the time.
* Modelled: `GoogleSync`.

### Server settings and network configuration
* Code: `src/app/api/servers/[id]/route.ts`, `src/lib/server-network-config.ts`,
  `docker/openvpn/entrypoint.sh`.
* State: the settings in `vpn_servers`; the file `serverConf` names, its backup and
  the files it named before; the running process; the NAT rules of the host.
* Operations: `PUT` (read the row, `cat` the file, build the next one, run a
  script, write the row), the lines of that script, deletion of the row,
  restart of the host.
* Hard: three places without a transaction; the script goes on when the transport
  gives up or hears no exit code; three iptables commands whose failures nothing
  looks at; a bad file must be taken back; two requests run two scripts.
* Correct when: a server keeps running on the file it has; 200 means applied;
  a refused configuration is put back.
* Modelled: `ServerConfig`.

### Sign-in, sessions and account management
* Code: `src/lib/auth.ts`, `auth-session.ts`, `mfa-cookie.ts`, `middleware.ts`,
  `profile/password`, `admin/users/**`.
* State: `AdminUser` (approved, role, password, MFA enabled), `AuthSession` rows,
  the token and the MFA cookie in a browser.
* Operations: sign in with a password or a directory, refresh, sign out, verify a
  code, enrol, disable MFA, change a password; administrators create, change and
  delete accounts, reset a second factor; sessions expire.
* Hard: three copies of an account's rights; the account is read before the
  session; sessions are revoked in a statement after the change; an email can
  get a new row with a new id; answers set cookies late.
* Correct when: no page without the factors the account requires; sessions of an
  old password end; nobody is admitted with rights that are gone.
* Modelled: `Sessions`.

### Second factor (TOTP)
* Code: `src/lib/totp-verification.ts`, `totp.ts`, `profile/mfa/**`,
  `auth/mfa/verify`, `admin/users/[id]/mfa/reset`.
* State: secret, pending secret, enabled, and the replay guard (hash of the last
  secret, last step).
* Hard: a code must be good for one use although two requests carry it; a secret
  is replaced by one read before the code was verified.
* Correct when: a code is accepted once; a right code works; a secret in use is one
  its owner has in an authenticator.
* Modelled: `TotpCodes`.

### Login rate limit
* Code: `src/lib/login-rate-limit.ts`, its callers in `auth.ts` and the MFA routes.
* State: a row per key with the start of a window, a counter and a lock date.
* Hard: the row is read and written in separate statements; the date was taken
  before the read; window and lock end on different comparisons; an attempt
  counts for two keys.
* Correct when: guesses are bounded; a lock ends, and is earned, kept and not
  prolonged.
* Modelled: `RateLimit`.

### Pages for administrators, applicants and account owners
* Code: `src/app/request-access/page.tsx`, `src/app/(dashboard)/` `users`,
  `users/[id]`, `groups/[id]`, `sync`, `servers/[id]/network`, `admin`,
  `profile/security`, and the badge of
  `components/layout/Sidebar.tsx`; the parts of their routes that read or write
  what they show.
* State: what a page was last given, what was typed, ticked and chosen, the
  address bar, calls under way.
* Hard: closures that send what was current when they were made; answers out of
  order; buttons that stay enabled; lists patched by hand; a page left in the
  middle of a call; a form that is sent before its data has come.
* Correct when: what is shown is what the server has, once nothing is under way;
  what is sent changes what its user meant to change.
* Modelled: `RequestPage`, `UsersPage`, `UserPage`, `SyncPage`, `NetworkPage`,
  `AdminPage`, `ProfilePage`, `GroupPage`.

### Way in: login, MFA and approval pages
* Code: `src/app/login`, `pending-approval`, `mfa/setup`, `mfa/verify`, their
  effects, and the redirects of `middleware.ts`.
* Hard: three parties redirect (middleware, effects, buttons) and look at
  different things at different times; two that disagree send a user round in
  circles.
* Correct when: somebody who may come in gets in.
* Modelled: `SignIn`.

### Parts modelled in part, or not at all
* Lifecycle automation throttle (`runAccessLifecycleAutomation`): a run in flight
  that callers share and a cooldown, in memory. Not modelled; the pass it starts
  is in `AccessRequests` and `CcdSync`, where passes overlap in any number.
* Transports and agent (`src/lib/transport/**`, `agent/`): they run one command
  and return its exit code and output, or reject. In part: what a command may
  have done before it is reported as failed is in every module that runs one.
* Roles and request guards (`rbac.ts`, `request-security.ts`): in part, as the
  reads and the roles of `getServerSession` in `Sessions`.
* Schema and deployment: in part; uniqueness and cascades are in the modules,
  the container's start in `ServerConfig`.
* System settings and LDAP; audit, dashboard, notifications, search; other pages:
  not modelled (section 6).

## 2. Plan and state

The order was that of what the program is for: giving access and taking it away,
then who may come in, then what people see of it.

| # | Module | What it adds | State |
|---|--------|--------------|-------|
| 1 | `AccessRequests` over `RequestLifecycle` | requests from post to certificate | checked; proved but for liveness |
| 2 | `OperationQueue` over `ServerLock` | jobs, restarts, reconciliation | checked, proved |
| 3 | `CcdSync` | files on the server against granted access | checked; proved but for liveness |
| 4 | `VpnCertificates` | the routes that generate, revoke, regenerate, import and delete | checked, proved |
| 5 | `TotpCodes`, `RateLimit` in `Guards` | one use of a code; wrong answers counted | checked, proved |
| 6 | `Sessions` | rights in rows, tokens and handlers | checked, proved |
| 7 | `GoogleSync` | two syncs, unreadable groups, changes meanwhile | checked, proved |
| 8 | `ServerConfig` | the script that installs a configuration | checked, proved |
| 9 | nine pages in `Pages` | browsers that overlap with themselves | checked; what two of them send and what five show is proved |

Worth doing next: a proof of what `/sync` shows; the dashboard page, whose many
widgets poll on their own; and the throttle.

## 3. How the modules read the code

**One action is one await.** A handler is a process with a program counter
(`pc[h]`; `phase` in `OperationQueue`, `stage` in `ServerConfig`) and the values it
has read so far (`work[h]`, `plan` in `ServerConfig`); an action is the code from one awaited statement or command to the next. Values in `work` are stale by
the time they are used exactly as in the code. A handler that answers and has
nothing left to do is `idle`, and its `work` is cleared.

**Faults.** A statement that throws has no effect, and the catch block or the HTTP
wrapper takes over as in the code. A process that stops loses its handlers; rows
and files stay. Remote commands fail in the ways listed below. A statement whose
answer is lost after it took effect is covered by a stop right after it.

**History variables** record what a property has to except (a sign-in that raced
with a change of password, an answer that came out of order, a statement that was
lost). The properties name them, so that what they except can be read off.

**Mutants.** Some definitions have a neighbour with a comment "Mutant of ...":
the same operation with a bug somebody could write. They are not part of any
`Next`; they show that the property named with them in `PROJECT.json` can fail.

### AccessRequests

| Variable | Code |
|----------|------|
| `status`, `target`, `stale` | `AccessRequest.status`, (email, serverId), age against the cutoffs of `access-lifecycle.ts` |
| `user`, `member`, `portal` | `VpnUser` (isEnabled, certStatus), `VpnUserGroup` rows, the approved `AdminUser` |
| `issued`, `stray` | certificates on the server: those whose files easyrsa has, and valid ones it has lost |
| `pc`, `work` | handlers in flight |
| `abandoned`, `leaked` | history: what a dead handler or a failed command left behind |

Actions `StartReview ... DisableUser` are the `PATCH` route line by line,
`StartCancel`/`Delete` the `DELETE` route, `StartPost`, `Check`, `Insert` the
`POST` route, `StartLifecycle ... ExpireDone` the pass, `ToggleUser` and
`RevokeUser` what the administrators' routes do to the same rows when they
succeed.

Abstracted: names and wording; which groups a request names (it names at least
one, and an account has them or not); the clash of a derived common name is the
same failure as that of the unique (email, server), in `CreateUser`; ids are
numbers in the order of `createdAt`. A command that is reported as failed and
completes later does so before the report. A failed revocation may have revoked
without publishing the CRL: the certificate is then a `stray` one, valid and
without files. A `FAILED` request does not reach its age of seven days while a
handler is still at work on it.

### RequestLifecycle
The status graph alone: what may follow what, and that access (a certificate
recorded as ACTIVE) is gained by an approval only. It allows what the code does
and a reader may not expect: an expired request can be claimed or rejected (by a
reviewer who read it before), and an approved one can become FAILED (the catch
block also covers the audit insert after the commit).

### CcdSync

| Variable | Code |
|----------|------|
| `group`, `routes`, `member`, `enabled` | groups, a version of their CIDR blocks, memberships, `isEnabled` |
| `ccd` | `VpnUser.ccdSyncStatus` |
| `grant`, `expired` | `TemporaryAccess` rows, those past `expiresAt` |
| `file` | the routes in the user's file: pairs of a group and the version of its blocks |
| `pc`, `work` | handlers in flight; `inPass` tells the expiry pass most begin with from their own work |
| `scene` | which operations and faults a behaviour has (a constant choice, so that one run can ask about several) |

`ReadUser ... MarkSuccess` are `syncUserCcdAfterAccessChange`, shared by
granting, revoking, the group push and the pass; the pushes that write without
it (`Blind`) share `Generate` and the writes. `Throw` and `Catch` are the catch
blocks around them.

Abstracted: the text of a file (two blocks of one group are one version; a static
address does not change); the command that makes a client reconnect belongs to
the write; the order of users in a loop and of grants in a pass is any order;
what drift detection reads, since it changes nothing but what the pass in front
of it does; memberships change in one statement whoever changes them. A write
may be refused with an exit code (`"exit"`), rejected by the transport
(`"reject"`), or take effect and be reported as one of the two (`"late"`).

### OperationQueue

| Variable | Code |
|----------|------|
| `status`, `server`, `old` | `SyncJob.status`, `serverId`, older than five minutes |
| `phase`, `kind` | where the handler of a job is, and what it is |
| `boot`, `stale` | `reconcileStaleJobs` between its two statements |
| `refused`, `lost` | history: jobs refused because the server was busy, jobs whose handler died or could not write |

`enqueueOperation` and `reconcileStaleJobs` are exported and tested, but at this
commit no route calls the first and nothing calls the second: the module models
them as their tests use them, the reconciler at the start of the process, where it
may run and never has to. The two direct inserts (`push-all-ccd`, `runGoogleSync`) and the retry route are the
ones that run. On servers in `Contended` calls overlap between insert and start,
and jobs start without asking; on the others neither happens.

### ServerLock
Jobs wait, at most one holder a server, an outcome is final. `OperationQueue`
implements it on the servers that are not in `Contended`.

### VpnCertificates

| Variable | Code |
|----------|------|
| `user`, `rows` | the `VpnUser` row of one common name, and how many rows the name has had |
| `made`, `good` | certificates in the order they were made; those the easyrsa index holds valid |
| `issued` | the one whose files are there |
| `listed` | the revocation list where the VPN server reads it |
| `ccd` | the client configuration file of the name |
| `pc`, `work` | handlers: the operation, the row's id and status as read, the certificate in hand |
| `prior`, `stray` | history: certificates from before the portal; valid ones that no row leads to |

`StartCert`, `StartBulk`, `StartFlag`, `StartOther`, `Discover` begin the
handlers; commands are `RevokeCert`, `Inspect` (`isCertRevokedOrMissing`),
`GenerateCert`, `ReadExpiry`, `Clean`; statements `Record`, `Withdraw`, `Resolve`,
`Drop`, `Dismiss`, `ClearFlag`, `Update`, `Import`. A command that fails ran in
part, not at all, or wholly. `show-cert ... || echo NOT_FOUND` (`cert-service.ts:97`)
makes a failed inspection say what it says of a certificate that is not there: in a
faulty behaviour `Inspect` may let a deletion go on although the files are there, and
`Drop` then puts the certificate in `stray`. A behaviour is `calm` (no failure, no bulk), `bulk`
or `faulty`.

Abstracted: dates are the certificate they were read from; an exit code that
`SshTransport` has not heard and takes for 0 (`ssh-transport.ts:50`), which is in
`ServerConfig` only. Assumed: operations on
the certificate of one name do not overlap (administrators do not work on one user
at the same time); everything else does. `bulk` generates without looking at what
is there, which is why `RecordIsTrue` is about `calm` behaviours.

### GoogleSync

| Variable | Code |
|----------|------|
| `directory` | the active members of each group at Google |
| `mappings`, `groups` | `GoogleGroupMapping` and `VpnGroup` rows |
| `name`, `flagged`, `member` | common names, flags, memberships with their source |
| `pc`, `work` | each sync: mappings listed and still to do, what it fetched, whom it looks at, errors |

`ListMappings`, `Fetch`, `ReadMembers`, `Lookup`, `Create`, `Upsert`, `Flag`,
`Succeed` are `runGoogleSync` and what it calls, one statement or call each;
`CreateUser`, `DeleteUser`, `Dismiss`, `AddToGroup`, `RemoveFromGroup`, `Reassign`,
`AddMapping`, `RemoveMapping`, `DeleteGroup` are the routes that change the same
rows. History inside `work`: who was always and who was ever in a group, whom
administrators and other syncs touched, since the sync began.

Abstracted: a user is an email; all emails of the model want the same common name,
so that the search for a free suffix matters, and a name is its suffix; users of
one loop come in any order. Renaming a mapping changes nothing a sync reads.

### ServerConfig

| Variable | Code |
|----------|------|
| `row`, `exists` | the settings in `vpn_servers`, `serverConf` (`path`) among them |
| `conf`, `bak` | the file at each path and its `.portal.bak`: the lines the portal does not manage (one flag) and the managed settings |
| `nat`, `default` | how many MASQUERADE rules each network has on each interface; the interface of the default route |
| `daemon` | the path the running process was started with and the file it has read |
| `stage`, `plan`, `script` | handlers, what they hold, and the next line of the script each has started |
| `last`, `calm` | history: the latest `PUT`, and what its answer does not say (`odd`); whether none overlapped and no script was cut off |

The script is a process of its own: `Backup`, `Write`, `Unset` (`iptables -D`), `Test`
(`-C`), `Set` (`-A`), `Reload`, `Start`, `Check` go on when the handler has stopped
waiting (`StopsWaiting`), also when the connection ended without an exit code, which
`SshTransport` takes for 0 (`Unheard`). Each iptables command may fail, and the script
goes on as it does; rules are counted, since `-D` removes one of those that match. They
are made on the interface of the default route, while `entrypoint.sh:76` makes the
first one on `eth1` (`Outer`), of network `Initial`; `default` is either.
`Restart` is the host: scripts end where they are, the rules are those of
`entrypoint.sh` (`Fresh`: that rule, or none when it fails), OpenVPN reads the file the
container names (`Home`), whatever `serverConf` says.

Abstracted: the managed settings are the network, the mode and one value for the
rest (some values of which OpenVPN refuses); text is not modelled, but that a file
which cannot be read counts as empty is. `cp` and `printf` fail only when the disk is
full, and are assumed to work; of the ways to start OpenVPN, the script's plain one
stands for all. A `PUT` that names no network setting, or that validation refuses,
touches none of this.

### Sessions

| Variable | Code |
|----------|------|
| `account`, `ids` | the `AdminUser` row of an email, and how many ids it has had |
| `session`, `expired` | `AuthSession` rows: whose, revoked or gone, and (history) of which password |
| `token`, `cookie`, `view` | in a browser: session token, MFA cookie, the page it shows |
| `pc`, `work` | handlers: what they have read, and the cookies an answer will set |
| `workload` | which operations a behaviour has |
| `proved`, `raced`, `unrevoked` | history: sessions with a code entered; sign-ins that raced with a change of password; changes whose revocation was lost |

`OpenPage` is the middleware. `ReadAccount` and `ReadSession` are the two reads of
`getServerSession`, in the order of the code. Answers are applied to a browser when
they arrive (`Answer`), whatever it holds by then. The settings
`auto-approve`, role synchronisation and compulsory onboarding are a constant and
two members of a workload. Directories (Google, OIDC, LDAP) are external: they
vouch for an email.

### TotpCodes, RateLimit, Guards

`TotpCodes` is one account: `row` (secret, pending, enabled), `guard`
(`lastTotpSecretHash`, `lastTotpStep`), handlers between reading the row, the
conditional update of `consumeTotpCode` and their own write. A code is the step
it belongs to, or 0 for one that is wrong; that it is right for one step around
the present is `findValidTotpStep`. History: secrets handed out, the latest step
accepted of each, codes accepted twice, right codes refused. `alone` is chosen at
first: the handlers that replace secrets overlap nothing and none fails.

`RateLimit` is the rows of the keys (`failures`, start of the window, end of the
lock), handlers that look at every key of an attempt, compare the secret, and
count a failure for each key in two statements with the date taken before.
`wrong` is a history: the times of the wrong answers looked at since a key was
cleared, in order. `alone`: one attempt at a time.

`Guards` puts them side by side. They share no statement, so a behaviour is one of
the first or of the second.

### Pages

In a page module an action is a handler of the page up to the `fetch` it sends, an
effect, the route that serves a call, or the arrival of an answer; calls are served
and answered in any order, or not at all. Nearly every route writes its audit record
after the change, and answers with an error when that fails: a call may be answered
`half`, an error for a change that was made, and the page then does what it does after
an error. `torn`, `left`, `alone`, `unproven` are histories of what a property
excepts, and each is set by the code path that causes it. `Pages` chooses one of the nine; they share no state, so one
set of variables holds whichever is shown.

| Module | State of the browser | State of the server | Left out |
|--------|----------------------|---------------------|----------|
| `RequestPage` | requests last fetched, selected server, call, POSTs | requests, access by server | groups: `/api/servers/[id]/groups` is answered by no route, so requests name none |
| `UsersPage` | address bar, search box and its timer, table, whether it is loading (`screen`), ticks, bulk action, form | users and certificate status | the other filters work like the one there is |
| `UserPage` | user and grants as fetched, form, operations under way | the user, its groups, its grants | what operations do on the server (`CcdSync`, `VpnCertificates`) |
| `SyncPage` | selected server, mappings, pages of jobs, calls | mappings, jobs | what a sync does (`GoogleSync`) |
| `NetworkPage` | two administrators' forms and calls | the settings | what a save does on the host (`ServerConfig`) |
| `AdminPage` | the two lists, ticks, dialog, calls, badge | accounts, the administrator's session | search, tabs, opening a form |
| `ProfilePage` | profile, QR code and its flow, a call of each kind | secret in force and pending one, whether the session lives | which codes are accepted (`TotpCodes`); the lists of sign-ins and servers |
| `GroupPage` | group as fetched, form, operations under way | name and CIDR blocks | members, who are only shown; the files of members (`CcdSync`) |
| `SignIn` | page shown, what its effects know, call under way, token and cookie | account, session | who may do what afterwards (`Sessions`) |

Except for reviewers in `RequestPage`, two administrators in `NetworkPage` and
other administrators in `SignIn`, nobody else changes what a page shows: that a
page is not told of others' changes is plain, and not what the properties ask.
In `SignIn` a navigation that is redirected to the page already shown leaves it
mounted (its effects do not run again), and a button is not pressed while a
navigation is under way; a page's request for its session is one step.

## 4. What is checked

Passing runs (TLC finds no error):

| Run | Question | Bounds |
|-----|----------|--------|
| `serial` | every PROCESSING request has an owner (`ProcessingOwned`); the handlers implement `RequestLifecycle` (`LifecycleSpec`) | 2 requests of one account, 2 handlers, all faults |
| `single` | valid certificates are accounted for (`LiveCertAccounted`); claimed requests get an outcome (`ClaimedSettles`) | 1 request, 2 handlers, administrators, all faults, fair |
| `apart` | SUCCESS means the file is current (`FileCurrent`) | 2 users, 2 handlers, 2 grants, 2 versions; rejected and late commands |
| `ended` | one valid grant (`NoDuplicateGrant`); what ended stays ended (`EndedStaysEnded`); expired access comes off the server (`ExpiryEnforced`) | 1 user, 2 grants; one group with every operation and fault, two groups with passes, grants and refused writes, fair |
| `queue` | rows agree with what runs (`StatusMatchesRun`); the reconciler is safe (`OrphansAreDead`); a lock a server (`LockSpec`); jobs whose handler lives settle (`JobsSettle`) | 3 jobs, 2 servers of which one is contended, fair |
| `sessions` | `SecondFactor`, `OldPasswordOut`, `NoStaleRights` | 1 email with 2 ids, 2 sessions, 1 browser, 2 handlers, 2 passwords, 8 workloads |
| `guards` | `OneUse`, `GoodCodeWorks`, `ActiveSecretProven`; `GuessBound`, `LocksEnd`, `LocksAreKept` | 2 secrets, 2 handlers, 2 steps of time; 3 keys with limits 2, 3, 3 and windows 2, 2, 1, lockout 2, 5 instants |
| `certs` | `RecordIsTrue`, `RevokedIsOut`, `DeletedIsRevoked` | 2 handlers, 2 rows and 3 certificates one after the other, 3 modes |
| `google` | `MembersAreIn`, `LeaversAreFlagged`, `MembersAreNotFlagged` | 2 emails, 2 Google groups mapped to one VPN group, 2 syncs, 2 changes or failures |
| `config` | `KeepsRunning`, `SavedIsApplied`, `RejectedIsRestored` | 2 handlers, 3 requests (whole forms, or one setting), 2 networks, 2 interfaces, 2 paths, settings OpenVPN accepts or refuses, 1 fault; 5.3 million states |
| `pages` | `FormAgrees`, `PendingOnce`, `TableIsAnswer`, `ShownIsCurrent`, `ListsAreCurrent`, `UneditedStays`, `GetsIn` | each of the 9 pages; 2 to 4 actions of its user, 2 of anything listed, 2 servers; 2.4 million states |

The runs of `CcdSync`, `Sessions` and `GoogleSync` also check the type invariant.

One violation (TLC finds the counterexample; the finding in `PROJECT.json` quotes
the line of the repository that says otherwise): in run `deadcert` an audit insert
that fails after the commit of an approval revokes the certificate and leaves
`certStatus` ACTIVE; the retry then approves with no valid certificate.

**Why the bounds are enough.** The hazards listed are between two handlers, or
between one handler and a fault: a handler reads a row, another one (or a fault)
changes it, and the first writes what it had read. A third handler can only repeat
what the second did. Two requests of an account are what the checks of `POST`, the
retry and the pass can confuse; two servers matter to the queue; two versions tell
a current file from an outdated one; two grants tell a revival from a duplicate.
Two ids of one email are a deletion and a return; two sessions tell the one a
cookie belongs to from the one that is open. Three certificates are the one from
before, the one replaced and the new one. Two Google groups of one VPN group are
what "in another group" is about. Limits of 2 and 3 have a failure before, at and
after them, and five instants hold a window, a lockout and a window again. Two of
anything on a page tell an older answer from a newer one.

**`CHECK_DEADLOCK FALSE`** stands where the supply of ids, time or actions runs out
(requests, jobs, accounts, certificates, syncs, `PUT`s, steps of the clock, what the
user of a page does): what stops there is the bound. The runs of `CcdSync` go on
for ever and are checked for deadlock.

**Assumptions a run makes on purpose.** `ReviewersRace = FALSE`: two reviews of
one account are not in flight together. `Overlap = FALSE`: two handlers of one
user are not, nor a change of a group and a handler of its users. `Contended`: on
the server outside it, two calls are not between insert and start together.
Certificate operations of one name do not overlap (`VpnCertificates`). `alone`
(`TotpCodes`, `RateLimit`) and `calm` (`ServerConfig`) are histories or choices of
a behaviour, so that a run has both kinds and the properties say which they need.
The code enforces none of these; people working one after the other do. The
conclusions fail without them: two racing reviewers overwrite each other's outcome,
overlapping handlers of a user leave SUCCESS on an outdated file, overlapping wrong
answers are counted once, two overlapping `PUT`s leave a row and a file of
different requests. What the code guarantees without them is stated without them
(`GoodCodeWorks`, `ActiveSecretProven`, `LocksEnd`, `RevokedIsOut`,
`StatusMatchesRun`, `OrphansAreDead`, `ProcessingOwned`, `SavedIsApplied` after
whatever overlapped before).

`apart` leaves out changes of memberships and deletions of groups, which do not
mark their users PENDING; exit codes without effect, since a push whose write ends
with one is recorded as SUCCESS; and, to stay small, switching users on and off
(`ended` has it). `ExpiryEnforced` leaves out late commands (a grant deleted after
a failed sync may have left its routes in the file, under status FAILED),
switching users off (the pass counts the grant of a disabled user as done without
a write), and stops between ending a grant and writing the file (no pass finds it
again). `ClaimedSettles` and `JobsSettle` except what a dead handler left: a
request in PROCESSING has nobody to move it; a job IN_PROGRESS has nobody either,
since at this commit nothing calls the reconciler that would (the module has it, and
no fairness makes it run); a retry is a PENDING row nothing takes up.

`SavedIsApplied` excepts, by `last.odd`, what a 200 does not tell: the exit code was
not heard (all of it is excepted), the iptables command that counts failed, or there
was more than one rule to remove (the NAT rules are excepted). `DeletedIsRevoked`
excepts the certificate that a failed revocation left and a failed inspection took for
missing. `TableIsAnswer`, `ShownIsCurrent` and `ListsAreCurrent` except pages whose
call was answered with an error although it had changed something, and `GetsIn`
accounts whose second factor was enabled without a cookie for this browser.

**Fairness.** A handler in flight goes on (`WF(Continue)` in `AccessRequests`,
`CcdSync`, `OperationQueue`): commands have timeouts and the event loop serves
every settled promise. Nobody is forced to start one, except that in `CcdSync`
dashboards and lists keep asking for the pass whenever a handler is free
(`SF(StartPass)`), and a write for a user that is tried again and again gets
through once in a while (`SF`): without the latter no program could remove anything
from a server. In `OperationQueue` only handlers in flight are fair: neither the
passing of time nor the reconciler is. In `Pages` the way in has weak fairness on what happens of itself (requests are
served, effects run, answers arrive) and on its user going on with what a page
offers; disturbances are never fair, and `GetsIn` asks what happens once the
account is approved for good.

## 5. What is proved

TLAPS checks every proof for all values of the constants: any set of requests,
servers, handlers, jobs, secrets or keys, any limit, any choice of operations.

`AccessRequestsProofs`
* `TypeCorrect`: types. `TypeOK` alone is not inductive: a handler indexes rows
  by what is in `work`, so `TypeInv` adds `WorkOK`, what each program counter
  needs to find there.
* `ProcessingIsOwned` (`ProcessingOwned`), reviewers racing included: `OwnerPays`
  says that only writing an outcome, dying or failing outside the try block ends
  ownership, and each of them shows in the status or in `abandoned`.
* `CertificatesAreKnown` (`LiveCertAccounted`), while reviews of an account do not
  overlap: no row knows of a certificate between the command that makes it and the
  row that records it. `Known` says that a handler then has it in hand, and
  `SeenInv` that a reviewer about to generate one knows that none is on record.
* `RejectedStaysQuiet` and `RejectionStays`, while reviews of an account do not
  overlap: the inductive part is `OneReviewer`, at most one reviewing handler an
  account, since a second reviewer's stale read is what breaks both.
* `Implements` (`LifecycleSpec`), under the same assumption: `InStep` ties the
  status a request can have to where its reviewer is, and every action maps to
  one of `RequestLifecycle` or a stutter.

`CcdSyncProofs`
* `CcdTypeCorrect` (`TypeOK`), whatever overlaps: `PlacesOK` says what a handler has
  read by the time it comes to a step, and `Apart` that handlers which do not overlap
  concern different users. The rest stands on these two.
* `OneGrant` (`NoDuplicateGrant`), while handlers of one user do not overlap: `DupInv`
  adds that from the look for a valid grant to the insert none appears, and that no
  other appears beside a grant that a failed revocation will make active again: only
  a handler of the same user could do either.
* `FilesAreCurrent` (`FileCurrent`), when memberships and groups stay and only writes
  fail, late or at once. (A membership changes without marking the user, and that is
  the reason for the restriction: it is hazard `api/users/[id]/groups/route.ts:55`.)
  `FileInv` says of a user who is SUCCESS that the file fits, or that a handler
  which has changed what is granted still owes the mark PENDING (`Accounted`,
  `Owing`); and of a handler that brings content to a file that the content still
  fits, since nobody else may change what that user is granted (`FilePlace`). The
  theorem lets users be enabled and disabled, which the run `apart` does not.
* `EndedIsOver` (`EndedStaysEnded`), with overlapping handlers, failures and crashes:
  once a grant is inactive and nobody is at work on its user, `Over` holds for good:
  no handler in flight has found the grant expired, and a revocation of it has read
  it inactive, so none writes it back active.

`GuardsAndQueueProofs`, of the queue (`OperationQueue`)
* `QueueTypeCorrect`, `RowsAgree` (`StatusMatchesRun`), `ReconcilerIsSafe`
  (`OrphansAreDead`), `OutcomesStay`, on contended servers too: the invariant
  `RunInv` joins the agreement of rows and handlers to the fact that old jobs seen
  at the start of the process have no handler and cannot get one.
* `AtMostOne` and `QueueImplementsLock` (`LockSpec`), for servers on which calls do
  not contend: `LockInv` adds that while a job is about to start, its server has
  none in progress and no other is deciding.

`PagesProofs`, of what three pages send and show (`Pages`)
* `OnePending` (`PendingOnce`), whatever reviewers, the lifecycle and administrators
  do to the rows meanwhile: `RequestInv` says that a POST under way is the one the
  page waits for, so that there is no other (`OnePost`); that nothing pending is
  older than another request for its server (`PendingNewest`), which is why the
  look at the newest one is enough; and that a POST which has found none still
  finds none (`CheckedFree`). The page is excused once it is left during a POST.
* `OthersSettingsStay` (`UneditedStays`), for any number of browsers: `NetworkInv`
  follows the settings from the row into the answer (`Loading`), the form
  (`Unedited`) and the body (`Sending`), each but for the keys typed since; only the
  loading screen keeps a save from being sent before the answer is in the form.
* `TableAnswers` (`TableIsAnswer`): the answers that will be torn, because a younger
  one has arrived, are the first of those under way (`LateFirst`). Unless an action
  still owes a fetch (`Owes`), what counts is current (`Fresh`): the answer to the
  youngest fetch as long as it is under way, and the table after that. A page that
  does not fetch after a change breaks `Fresh` at that step.

`PagesProofs` and `ShownPagesProofs`, of four more pages
* `PagesAreCurrent` (`ShownIsCurrent`), for `/users/[id]`, `/admin`, `/groups/[id]` and
  `/profile/security`, with any number of rows, calls and fetches. Of the three that
  fetch anew after a change, a section about queues of fetches says how answers that
  come in any order can be relied on: those that are late, because a younger one of
  their kind has arrived, come first (`LateAreFirst`), and the youngest of a kind will
  be answered with what is in the database as long as it is under way, and what is
  shown is that afterwards (`Current`). Each page then has what it owes: a call that has
  been served and not yet answered will be followed by a fetch (`GroupOwes` and its like).
  On `/admin` the list and the number in the sidebar are fetched apart (`ListOwed`,
  `CountOwed`): a removal is followed by a fetch of the list only, and leaves the number
  right because an account that was shown as approved is so until it is removed
  (`Admitted`), whatever other calls are under way.
  `/profile/security` is told by the answers of several calls whether the second
  factor is on and which QR code to show: for each of the two the last answer under
  way that tells of it (`TellsLast`) tells the truth, and what is shown does when none
  is under way (`OffOnCurrent`, `QrCodeCurrent`).

`SessionsProofs`
* `SessionTypeCorrect` (`TypeOK`): `SessionsOK` adds that an active session is of the
  row its account has now, which is why deleting an account ends its sessions.
* `PagesNeedCodes` (`SecondFactor`): `CodeInv` says that MFA cookies, the pages shown,
  and what a handler is about to hand out are of sessions in which a code was accepted.
* `OldPasswordEnds` (`OldPasswordOut`): between the new password and the revocation of
  the sessions the handler that changes it is in flight (`Changing`), so that a session
  of the old password is being ended, was `raced`, or its account is `unrevoked`. With
  the types, which say whose a session is, the property is inductive.
* `RightsAreCurrent` (`NoStaleRights`): a call reads the account and then the
  session. `RightsInv` says that between the two, an active session means the account
  still has the role and approval that were read, unless a handler that changed them
  has still to revoke it, or failed to (`Excused`).

`GuardsAndQueueProofs`, of the guards (`Guards`)
* `CodeTypeCorrect`, `LimitTypeCorrect`: what a handler and an attempt carry is not
  empty where it is indexed; `CodesBesideCounters`: a behaviour is of one guard.
* `GoodCodesWork` (`GoodCodeWorks`) and `SecretsAreProven` (`ActiveSecretProven`),
  whatever overlaps and fails. `CodeInv` says that the guard is never ahead of the
  latest step accepted of its secret, and (`WorkInv`) that a handler about to write
  a secret has had a code of it accepted.
* `CodesAreUsedOnce` (`OneUse`): `AloneInv` adds that the guard is not behind either,
  and is about the secret in use unless that has never been used or is just being
  replaced.
* `EveryLockEnds` (`LocksEnd`), whatever overlaps: the inductive part, `PastInv`, is
  that what handlers have read and dated is of the past; a stale write may undo a
  lock or start one again but cannot put one further into the future.
* `GuessesAreFew` (`GuessBound`) and `LocksAreEarned` (`LocksAreKept`), attempts one at
  a time: neither can be read off a row, which forgets what came before its count.
  `CountInv` ties each row to the history of its key (`Tally`): the row counts the
  last `failures` wrong answers, at most the limit, from the first of them on; those
  that come `Limit - 1` or more before the first are a window older, since the count
  before ended with its window or with a lockout, which is no shorter. Two counts
  are then all that a window can touch. While an attempt is at work,
  the wrong answer in hand is in the history and not yet in the row (`Owed`).

`VpnCertificatesProofs`
* `CertTypeCorrect`; `RevocationHolds` (`RevokedIsOut`) and `DeletionRevokes`
  (`DeletedIsRevoked`), whatever fails. `Places` says where a handler can be and that
  one handler of a certificate is in flight; `CertInv` what each of its steps may
  rely on: before the row is dropped or marked REVOKED, nothing is valid or accepted
  but what the history `stray` names or the handler has in hand because an inspection
  failed and took it for missing (`Known`).
* `RecordedIsAccepted` (`RecordIsTrue`), in calm behaviours: `CalmInv` says for every
  step (`CalmStage`) which of the row, the authority, the files and the list are
  ahead of each other.

`ConfigAndGoogleProofs`, of the synchronisation (`GoogleSync`)
* `GoogleTypeCorrect` (`TypeOK`); `MembersAreServed` (`MembersAreIn`), `LeaversAreSeen`
  (`LeaversAreFlagged`) and `MembersAreSpared` (`MembersAreNotFlagged`), for any
  directory and mappings, with syncs that overlap. `SyncInv`: what a sync has read
  of a Google group lies between those who were members throughout and those who
  ever were while it ran (`SnapshotOK`), what is left of its batch is what it has not
  done (`BatchOK`), those it has done are served (`ServedOK`), and whoever left is
  flagged or about to be (`LeftOK`). That a free common name can be found for a new
  user is a pigeonhole argument over the finite set of emails (`FreeNameIsFree`).

`ConfigAndGoogleProofs`, of the settings (`ServerConfig`)
* `ConfigTypeCorrect` with `ScriptOK`: a script at a line has settings to install.
* `ServerKeepsRunning` (`KeepsRunning`): while nothing overlaps, `RunInv` has the
  process run on the file of the container (`Home`) whenever no script is at work,
  wherever `serverConf` points, and a backup that starts from the moment that file is
  written, so that the last line has a file to go back to.
* `AnsweredIsApplied` (`SavedIsApplied`) and `RefusedIsUndone` (`RejectedIsRestored`):
  `SaveInv` and `RestoreInv` say, line by line of the script (`SaveStage`,
  `Restoring`), what of files, backups, process and rules is already of the new
  settings and what is still of the old; after each iptables command, that the rules
  are those asked for or that `last.odd` says why not.

The assumptions are the named `ASSUME`s of the modules (finite sets of ids,
handlers and emails, positive limits, windows no longer than the lockout, ranges of
choices, a `Nobody` that is no handler, attempts that name a key once); TLC evaluates
them on every run. Some results are proved and not listed in a run, since the proof
covers every instance: `TypeOK` of `AccessRequests`, `OperationQueue`,
`VpnCertificates`, `ServerConfig`, `TotpCodes` and `RateLimit`, `RejectedIsQuiet`,
`RejectionIsFinal`, `OneInProgress` and `OutcomeIsFinal`.

**Only model-checked.** Liveness (`ClaimedSettles`, `ExpiryEnforced`, `JobsSettle`,
`GetsIn`): fairness and ENABLED are beyond the prover. `FormAgrees` and
`ListsAreCurrent` rest on what `SelectSeq`, a recursive function, computes for every
list, which takes induction over data. No module of a theorem declares a recursive
operator.

## 6. What is not modelled

* The throttle of the lifecycle automation: it only delays a pass that may start at
  any time in the modules.
* System settings and LDAP: one row written whole, and a directory that `Sessions`
  takes as external; the settings it depends on are its constants.
* Audit contents, notifications, dashboard figures, analytics and search: rows
  inserted or aggregated and shown. That an audit insert may throw is part of the
  handlers that await it.
* Other pages: they fetch once or poll and show what they got, or have forms like
  those of the modelled ones. The dashboard page, the longest, is widgets that poll
  independently.
* Below "a command ran or did not": polling and reconnection of the transports, the
  agent's process.
* The text of commands, files, messages and dates; Prisma, NextAuth and easyrsa
  themselves; decisions from one request alone (origin, headers, validation).
* `CcdSync` for a deployment switched to read-only while it holds grants
  (`Management = FALSE` has no such initial state).

What reading the code for the modules showed, beside the finding, and what the
properties therefore except:
* After a deletion whose revocation ran but whose list was not published, the server
  accepts the certificate until another list is (`DeletedIsRevoked` is about the
  authority).
* A deletion whose revocation fails asks whether the certificate is there with a command
  that answers NOT_FOUND when it fails (`cert-service.ts:97`): it may remove the row of a
  valid certificate, to which nothing in the portal leads any more.
* A comment at `auth.ts:443-446` says that `mfaVerified` comes from the database when a
  token is refreshed; lines 531 to 535 keep it true when the second factor is enabled
  in another session, and `/mfa/verify` then shows nothing (`unproven` in `SignIn`).
  The middleware looks at the MFA cookie, so that no page opens for it. The same empty
  page is reached from one's own `/mfa/setup`: `profile/mfa/enable/route.ts:45` enables
  the second factor before the audit record (55) and the cookie (64), so that an error
  or a lost answer in between leaves the account without a cookie, until its user signs
  out and in again.
* Changes are made before their audit records are. When the record fails, the answer is
  an error, and pages fetch nothing and patch nothing after an error: the user that was
  created is not in the table of `/users`, the mapping added or removed on `/sync` is
  still missing or shown. On `/users/[id]` a refused grant leaves `ccdSyncStatus` FAILED
  or PENDING, and a disabled user enabled, while the page shows what was before.
* Ticked accounts on `/admin` stay ticked when one has been approved meanwhile, and a
  bulk rejection deletes it.
* On `/profile/security` a new QR code can be asked for while the old one is being
  confirmed. When the answers overtake each other, or the audit record fails after a
  new secret has been stored, a QR code no code of which is accepted stays on the
  screen until the page is loaded again; the secret in force is not affected.
* On `/groups/[id]` adding a block while the name is being edited discards what was
  typed, since every group that arrives sets the form.
* A refused configuration puts the file back but not the NAT rules of the network. A
  200 does not say that they are as asked for: nothing looks at a failed `iptables -A`,
  `-D` removes one of two rules, the rule of the network before the change is never
  removed, and neither is the container's own on `eth1` when the default route is
  elsewhere.
* A `serverConf` that moves makes a new file without the lines the portal does not
  manage, while the process stays on the one it was started with, and the `PUT` answers
  200 (`SavedIsApplied` says of the process that it has read its own file).
* `/request-access` asks a route for groups that does not exist; `enqueueOperation` and
  the reconciler have no caller; the row a retry inserts is taken up by nobody.
