SPECIFICATION ServicesSpec
CONSTANTS
  Half = 4
  N = 3
  Generations = 4
  Periods = {0, 1, 3, 5}
  Budgets = {0, 1, 2}
  Steps = {1, 3}
  MaxAdds = 4
  Capacity = 3
  Events = {"text", "tick", "user"}
  MaxCount = 3
  Thresholds = {0, 1, 2, 3}
  Pins = {p1, p2}
  Masks = {{p1}, {p2}}
  EdgePins = {p1, p2}
  PwmPeriods = {0, 1, 2, 3, 4, 5, 7}
INVARIANTS ReachedIsDue NoStarvation StaleIdsDead LoopDropsNothing DutyHeld
PROPERTIES DrainsWithinBudget ImplementsFifo PressTogglesOnce PinsHold EdgesExact
