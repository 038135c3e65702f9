SPECIFICATION NoticesFairSpec
CONSTANTS
  u1 = u1
  u2 = u2
  w1 = w1
  w2 = w2
  f1 = f1
  Fingerprints = {f1}
  NoFingerprint = NoFingerprint
  NoWorker = NoWorker
  NoUser = NoUser
  MaxConcurrent = 1
  Users = {u1, u2}
  Workers = {w1}
  TimelyWorkers = {}
  Runs <- OneRun
  MaxFaults = 1
  ExtraEvents = {"new_noncompliance"}
  Wants <- WantsSome
  Unreachable = {}
  BatchLimit = 1

INVARIANTS NoticeOnce ResultIsAnnounced MailedOncePerTry RecordTellsDelivery
PROPERTIES EveryNoticeSettles
