SPECIFICATION ClosureSpec
CONSTANTS
  Agents = {"s1", "s2"}
  Roles <- ScansAndRequests
  Settings = {"require_scanner_success", "close_issues", "close_verified"}
  Circumstances = {"push", "missing"}
  MaxRows = 1
  MaxFaults = 1
PROPERTIES ClosedOnEvidence
