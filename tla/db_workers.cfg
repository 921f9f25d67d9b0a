SPECIFICATION Spec
CONSTANTS
  NumWorkers = 2
  Logins = {login}
  Payments = {payment}
  Beat = Beat
  NoJob = NoJob
  MaxRetries = 1
PROPERTIES ImplementsJobService
