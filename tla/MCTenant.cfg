SPECIFICATION MCSpec
CHECK_DEADLOCK FALSE
SYMMETRY Symmetry
CONSTANTS
  Bills = {b1, b2}
  Notes = {n1, n2}
  References = {r1, r2}
  Sums = {1, 2}
  Clerks = {t1, t2}
  Banks = {k1, k2}
  Ledgers = {g1}
  Statements = {s1, s2}
  Inflows = {in1, in2}
  Outflows = {out1}
  OwedToUs = {i1}
  OwedByUs = {d1}
  Tellers = {t1, t2}
  Turns = {u1, u2}
  MaxTurns = 2
  Deliveries = {q1, q2}
  Numbers = {m1}
  Users = {p1, p2}
  MaxTargets = 2
  Adders = {h1, h2, h3}
  Arrivals = {a1, a2}
  Dials = {z1, z2}
  Tapes = {v1, v2}
  LastDay = 2
  member = member
  reading = reading
  writing = writing
  plain = plain
  owner = owner
  vendor = vendor
  other = other
  Tools = {reading, writing, plain}
  TierGated = {writing, plain}
  Guarded = {reading, writing}
  Capabilities = {reading, writing}
  Providers = {vendor, other}
  Callers = {t1, t2}
  Actors = {member, owner}
  Deciders = {owner}
  Proposals = {ap1}
  NoOne = NoOne
INVARIANTS
    ToolsRunAsAllowed
    BankedOnce
PROPERTIES
    SchemaFits
    PurgeErases
    PayablesMatchBooks
    TurnsAnsweredOnce
    DeskAccounts
