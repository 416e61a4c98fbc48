CONSTANTS
  c1 = c1
  c2 = c2
  r1 = r1
  r2 = r2
  Categories = {c1, c2}
  NoCategory = NoCategory
  Roles = {r1, r2}
  CategoryOf <- OneRoleEach
  Engines = {"unity"}
  Tools = {}
  Strengths = {"fast_learner"}
  Motivations = {"fun"}
  MaxConsents = 2
SPECIFICATION Spec
SYMMETRY Interchangeable
INVARIANTS TypeOK StepHasItsData AcceptedMakesSense BeginnersNameStrengths ContactFixKeepsAnswers RolesFitCategory
