------------------------------ MODULE ConsoleApi ------------------------------
(***************************************************************************)
(* The endpoints the web console calls (web/src/api): for a GET how long    *)
(* its answer is cached and whether callers share it in flight, for a write *)
(* which cached GETs its answer drops. A path is the sequence of its         *)
(* segments; "id" stands for an identifier in it. An operation takes its     *)
(* name from the code.                                                      *)
(***************************************************************************)
EXTENDS Naturals

Cached(path, ms) == [path |-> path, cacheMs |-> ms, dedupe |-> TRUE]
Get(path) == Cached(path, 0)
GetAlone(path) == [path |-> path, cacheMs |-> 0, dedupe |-> FALSE]
Write(path, prefixes) == [path |-> path, invalidatePrefixes |-> prefixes]

Stats == <<"admin", "dashboard", "stats">>

adminApi ==
  LET admins == <<"admin", "admins">> IN
  [getList |-> Get(admins), getById |-> Get(<<"admin", "admins", "id">>),
   create |-> Write(admins, {admins}), update |-> Write(admins, {admins}),
   delete |-> Write(admins, {admins})]

apiKeyApi ==
  LET keys == <<"admin", "api-keys">>
      key == <<"admin", "api-keys", "id">>
      stats == <<"admin", "api-keys", "id", "allocation-stats">>
      assigned == <<"admin", "api-keys", "id", "assigned-mailboxes">>
  IN [getList |-> Cached(keys, 800), getById |-> Get(key),
      create |-> Write(keys, {keys, Stats}),
      update |-> Write(key, {keys, key, Stats}), delete |-> Write(key, {keys, key, Stats}),
      getAllocationStats |-> Cached(stats, 1000),
      resetAllocation |-> Write(<<"admin", "api-keys", "id", "allocation-reset">>,
                                {stats, assigned}),
      getAssignedMailboxes |-> Cached(assigned, 800),
      updateAssignedMailboxes |-> Write(assigned, {stats, assigned})]

dashboardApi ==
  LET logs == <<"admin", "dashboard", "logs">> IN
  [getStats |-> Get(Stats), getApiTrend |-> Cached(<<"admin", "dashboard", "api-trend">>, 2000),
   getLogs |-> Get(logs), deleteLog |-> Write(logs, {logs}),
   batchDeleteLogs |-> Write(logs, {logs})]

logsApi ==
  [getList |-> dashboardApi.getLogs, delete |-> dashboardApi.deleteLog,
   batchDelete |-> dashboardApi.batchDeleteLogs]

emailDrops == {<<"admin", "emails">>, <<"admin", "email-groups">>, <<"admin", "api-keys">>,
               Stats}

\* The operations that leave the list of accounts alone up to viewMailDetail,
\* and those that change it.
emailApi ==
  LET emails == <<"admin", "emails">>
      email == <<"admin", "emails", "id">>
      mails == <<"admin", "emails", "id", "mails">>
  IN [getList |-> Cached(emails, 800), getStats |-> Get(<<"admin", "emails", "stats">>),
      getById |-> Get(email),
      revealUnlock |-> Write(<<"admin", "emails", "reveal-unlock">>, {}),
      revealSecrets |-> Write(<<"admin", "emails", "id", "reveal-secrets">>, {}),
      create |-> Write(emails, emailDrops),
      import |-> Write(<<"admin", "emails", "import">>, emailDrops),
      export |-> Get(<<"admin", "emails", "export">>),
      update |-> Write(email, emailDrops), delete |-> Write(email, emailDrops),
      batchDelete |-> Write(<<"admin", "emails", "batch-delete">>, emailDrops),
      viewMails |-> Get(mails),
      viewMailDetail |-> GetAlone(<<"admin", "emails", "id", "mails", "detail">>)]

emailMailApi ==
  LET emails == <<"admin", "emails">> IN
  [deleteSelectedMails |-> Write(<<"admin", "emails", "id", "mails", "delete">>, {emails}),
   batchFetchMailboxes |-> Write(<<"admin", "emails", "batch-fetch-mails">>, {emails}),
   batchClearMailbox |-> Write(<<"admin", "emails", "batch-clear-mailbox">>, {emails}),
   sendMail |-> Write(<<"admin", "emails", "id", "send">>, {}),
   clearMailbox |-> Write(<<"admin", "emails", "id", "clear">>, {})]

groupApi ==
  LET groups == <<"admin", "email-groups">>
      group == <<"admin", "email-groups", "id">>
      drops == {groups, <<"admin", "emails">>, <<"admin", "api-keys">>}
  IN [getList |-> Cached(groups, 5000), getById |-> Get(group),
      create |-> Write(groups, drops), update |-> Write(group, drops),
      delete |-> Write(group, drops),
      assignEmails |-> Write(<<"admin", "email-groups", "id", "assign">>, drops),
      removeEmails |-> Write(<<"admin", "email-groups", "id", "remove">>, drops)]

domainApi ==
  LET domains == <<"admin", "domains">>
      domain == <<"admin", "domains", "id">>
      boxes == <<"admin", "domain-mailboxes">>
  IN [getList |-> Cached(domains, 600), getById |-> Get(domain),
      create |-> Write(domains, {domains, Stats}),
      update |-> Write(domain, {domains, domain, Stats}),
      verify |-> Write(<<"admin", "domains", "id", "verify">>, {domains, domain}),
      saveCloudflareConfig |-> Write(<<"admin", "domains", "id", "cloudflare-config">>,
                                     {domains, domain}),
      validateCloudflare |-> Write(<<"admin", "domains", "id", "cloudflare-validate">>,
                                   {domains, domain}),
      saveCatchAll |-> Write(<<"admin", "domains", "id", "catch-all">>,
                             {domains, domain, boxes}),
      saveSendingConfig |-> Write(<<"admin", "domains", "id", "sending-config">>,
                                  {domains, domain, <<"admin", "send", "configs">>})]

domainAliasApi ==
  LET domain == <<"admin", "domains", "id">>
      aliases == <<"admin", "domains", "id", "aliases">>
  IN [getAliases |-> Get(aliases),
      createAlias |-> Write(aliases, {aliases, domain, <<"admin", "domain-mailboxes">>}),
      updateAlias |-> Write(aliases, {aliases}),
      delete |-> Write(domain, {<<"admin", "domains">>, Stats}),
      deleteAlias |-> Write(aliases, {aliases})]

domainMailboxApi ==
  LET boxes == <<"admin", "domain-mailboxes">>
      box == <<"admin", "domain-mailboxes", "id">>
      drops == {boxes, <<"admin", "domains">>, <<"admin", "mailbox-users">>, Stats}
  IN [getList |-> Get(boxes), getById |-> Get(box), create |-> Write(boxes, drops),
      batchCreate |-> Write(<<"admin", "domain-mailboxes", "batch-create">>,
                            drops \cup {<<"admin", "api-keys">>}),
      batchDelete |-> Write(<<"admin", "domain-mailboxes", "batch-delete">>, drops),
      update |-> Write(box, drops \cup {box}), delete |-> Write(box, drops)]

mailboxUserApi ==
  LET users == <<"admin", "mailbox-users">>
      user == <<"admin", "mailbox-users", "id">>
      drops == {users, <<"admin", "domain-mailboxes">>}
  IN [getList |-> Get(users), getById |-> Get(user), create |-> Write(users, drops),
      update |-> Write(user, drops \cup {user}),
      addMailboxes |-> Write(<<"admin", "mailbox-users", "id", "mailboxes">>,
                             drops \cup {user, Stats}),
      delete |-> Write(user, drops)]

domainMessageApi ==
  LET messages == <<"admin", "domain-messages">> IN
  [getList |-> Get(messages), getById |-> Get(<<"admin", "domain-messages", "id">>),
   delete |-> Write(messages, {messages}), batchDelete |-> Write(messages, {messages})]

forwardingJobsApi ==
  LET jobs == <<"admin", "forwarding-jobs">> IN
  [getList |-> Get(jobs), getById |-> Get(<<"admin", "forwarding-jobs", "id">>),
   requeue |-> Write(<<"admin", "forwarding-jobs", "id", "requeue">>, {jobs})]

sendingApi ==
  LET configs == <<"admin", "send", "configs">>
      messages == <<"admin", "send", "messages">>
  IN [getConfigs |-> Get(configs),
      deleteConfig |-> Write(configs, {configs, <<"admin", "domains">>}),
      getMessages |-> Get(messages), deleteMessage |-> Write(messages, {messages}),
      batchDeleteMessages |-> Write(messages, {messages}), send |-> Write(messages, {messages})]

authApi ==
  [login |-> Write(<<"admin", "auth", "login">>, {}),
   logout |-> Write(<<"admin", "auth", "logout">>, {}),
   getMe |-> Get(<<"admin", "auth", "me">>),
   changePassword |-> Write(<<"admin", "auth", "change-password">>, {}),
   getTwoFactorStatus |-> Get(<<"admin", "auth", "2fa", "status">>),
   setupTwoFactor |-> Write(<<"admin", "auth", "2fa", "setup">>, {}),
   enableTwoFactor |-> Write(<<"admin", "auth", "2fa", "enable">>, {}),
   disableTwoFactor |-> Write(<<"admin", "auth", "2fa", "disable">>, {})]

oauthApi ==
  [getProviderStatuses |-> Get(<<"admin", "oauth", "providers">>),
   getConfigs |-> Get(<<"admin", "oauth", "configs">>),
   saveConfig |-> Write(<<"admin", "oauth", "configs", "id">>, {}),
   parseGoogleClientSecret |-> Write(<<"admin", "oauth", "google", "parse">>, {}),
   startAuthorization |-> Write(<<"admin", "oauth", "id", "start">>, {}),
   getAuthorizationStatus |-> Get(<<"admin", "oauth", "id", "status">>)]

\* No write of the portal drops anything.
mailboxPortalApi ==
  [login |-> Write(<<"mail", "api", "login">>, {}),
   logout |-> Write(<<"mail", "api", "logout">>, {}),
   getSession |-> Get(<<"mail", "api", "session">>),
   getMailboxes |-> Get(<<"mail", "api", "mailboxes">>),
   getMessages |-> Get(<<"mail", "api", "messages">>),
   getMessage |-> Get(<<"mail", "api", "messages", "id">>),
   getSentMessages |-> Get(<<"mail", "api", "sent-messages">>),
   getSentMessage |-> Get(<<"mail", "api", "sent-messages", "id">>),
   getForwardingJobs |-> Get(<<"mail", "api", "forwarding-jobs">>),
   sendMessage |-> Write(<<"mail", "api", "send">>, {}),
   changePassword |-> Write(<<"mail", "api", "change-password">>, {}),
   getTwoFactorStatus |-> Get(<<"mail", "api", "2fa", "status">>),
   setupTwoFactor |-> Write(<<"mail", "api", "2fa", "setup">>, {}),
   enableTwoFactor |-> Write(<<"mail", "api", "2fa", "enable">>, {}),
   disableTwoFactor |-> Write(<<"mail", "api", "2fa", "disable">>, {}),
   updateForwarding |-> Write(<<"mail", "api", "forwarding">>, {})]
=============================================================================
